---- MODULE Spec2Model ----
(***************************************************************************)
(* A model of things-mcp (src/src/index.ts): the payload builders          *)
(* (buildRestructurePayload, buildStructuredProjectPayload), the auth      *)
(* token resolution and the tool handlers that turn a tool call into one   *)
(* `open things:///...` process.                                           *)
(*                                                                         *)
(* Conventions.  A JavaScript object with optional fields is a TLA+        *)
(* function whose DOMAIN is the set of fields that were supplied: a field  *)
(* that is `undefined` is a key that is not in the DOMAIN.  Identifiers    *)
(* and titles of the batch payloads are TLA+ strings ("" is the empty      *)
(* string); the strings that are trimmed or put in a query string are      *)
(* sequences of one-character strings.                                     *)
(***************************************************************************)
EXTENDS Integers, Sequences, FiniteSets, TLC

\* call:   the function or tool that is called, with its arguments
\* env:    process.env (THINGS_AUTH_TOKEN is a key when it is set)
\* pc:     where the call is: "call", "opening" (awaiting openThingsURL),
\*         "done" / "returned", "failed"
\* out:    what the call returned or threw
\* opened: the child processes started, in order: the URL given to
\*         spawn("open", [url]) with the events the child has emitted and the
\*         promise of openThingsURL, or the command evaluate runs
VARIABLES call, env, pc, out, opened

vars == <<call, env, pc, out, opened>>

(***************************************************************************)
(* Bounds of the model.                                                    *)
(***************************************************************************)
\* Longest layout given to buildRestructurePayload.
MaxLayout == 2
\* Most optional fields supplied over all the blocks of one layout.
MaxFields == 3
\* Largest structured project: its entries (headings, to-dos) plus the
\* optional fields supplied anywhere in it.
MaxProjectSize == 4
\* Longest auth token (parameter or THINGS_AUTH_TOKEN) given to resolveAuthToken.
MaxTokenLen == 2
\* Most optional inputs of one tool call: the optional fields supplied, and
\* THINGS_AUTH_TOKEN when it is set.
MaxSupplied == 2
\* Longest layout, and most optional fields over its blocks, in a
\* restructure-project tool call.
MaxToolLayout == 1
MaxToolFields == 1
\* Most command-line arguments of a start of the process.
MaxArgs == 2

(***************************************************************************)
(* Generic helpers.                                                        *)
(***************************************************************************)
Has(obj, key) == key \in DOMAIN obj

\* JavaScript truthiness of an optional string field of the batch payloads.
Truthy(obj, key) == Has(obj, key) /\ obj[key] # ""

\* `obj.items?.length` as a condition: items supplied and not empty.
HasItems(obj) == Has(obj, "items") /\ Len(obj.items) > 0

RECURSIVE SeqSum(_)
SeqSum(s) == IF s = <<>> THEN 0 ELSE Head(s) + SeqSum(Tail(s))

\* S extended, or not, by field `key` with one of the values V.
WithOptional(S, key, V) == S \cup { r @@ (key :> v) : r \in S, v \in V }

\* The same, `key` being added only to the records of fewer than f fields.
WithOptionalUpTo(S, key, V, f) ==
  S \cup { r @@ (key :> v) : r \in { x \in S : Cardinality(DOMAIN x) < f }, v \in V }

\* S extended by each of the optional fields <<key, values>> of `fields`.
RECURSIVE WithFieldsUpTo(_, _, _)
WithFieldsUpTo(S, fields, f) ==
  IF fields = <<>> THEN S
  ELSE WithFieldsUpTo(WithOptionalUpTo(S, Head(fields)[1], Head(fields)[2], f), Tail(fields), f)

(***************************************************************************)
(* Input domain of buildRestructurePayload: RestructureHeadingSchema and   *)
(* RestructureUnsectionedSchema.                                           *)
(***************************************************************************)
ProjectIds == {"P1"}
HeadingIds == {"", "h1", "h2"}
HeadingTitles == {"", "T"}
Operations == {"create", "update", "move", "delete"}
IndexValues == {0, 2}
ItemLists == {<<>>, <<"a">>, <<"b", "c">>}

RestructureHeadingSchema ==
  WithOptional(
    WithOptional(
      WithOptional(
        WithOptional(
          WithOptional({[type |-> "heading"]}, "id", HeadingIds),
          "title", HeadingTitles),
        "operation", Operations),
      "index", IndexValues),
    "items", ItemLists)

RestructureUnsectionedSchema ==
  WithOptional({[type |-> "unsectioned"]}, "items", ItemLists)

RestructureLayoutItemSchema ==
  RestructureHeadingSchema \cup RestructureUnsectionedSchema

\* Optional fields a block supplies (every block has `type`).
Supplied(block) == Cardinality(DOMAIN block) - 1

\* Optional fields supplied over all the blocks of a layout.
TotalSupplied(layout) == SeqSum([i \in 1..Len(layout) |-> Supplied(layout[i])])

\* The blocks that supply at most f optional fields.
BlocksUpTo == [f \in 0..MaxFields |-> { b \in RestructureLayoutItemSchema : Supplied(b) <= f }]

(***************************************************************************)
(* buildRestructurePayload                                                 *)
(***************************************************************************)
Digits == <<"0", "1", "2", "3", "4", "5", "6", "7", "8", "9">>

\* crypto.randomUUID(): the n-th call of one build returns an identifier that
\* no earlier call returned and that is no identifier of the input.
randomUUID(n) == "uuid-" \o Digits[n + 1]

\* const generatedId = providedId ?? randomUUID();
GeneratedId(item, calls) ==
  IF Has(item, "id") THEN item.id ELSE randomUUID(calls)

\* Mutant of HeadingOperation: a heading with an id is always updated.
HeadingOperation_NeverMove(item) ==
  IF Has(item, "operation") THEN item.operation
  ELSE IF Truthy(item, "id") THEN "update" ELSE "create"

\* item.operation || (providedId ? (item.title || item.index !== undefined
\*   ? "update" : "move") : "create")
HeadingOperation(item) ==
  IF Has(item, "operation") THEN item.operation
  ELSE IF Truthy(item, "id")
       THEN (IF Truthy(item, "title") \/ Has(item, "index") THEN "update" ELSE "move")
       ELSE "create"

\* Mutant of HeadingIndexAttr: the counter is emitted, whatever the block gives.
HeadingIndexAttr_CounterOnly(item, headingIndex) == headingIndex

\* headingAttributes.index = item.index !== undefined ? item.index : headingIndex
HeadingIndexAttr(item, headingIndex) ==
  IF Has(item, "index") THEN item.index ELSE headingIndex

HeadingAttributes(projectId, item, headingIndex) ==
  ("project-id" :> projectId)
  @@ (IF Truthy(item, "title") THEN [title |-> item.title] ELSE <<>>)
  @@ [index |-> HeadingIndexAttr(item, headingIndex)]

\* The entries pushed on headingOperations for one heading block.
HeadingEntries(projectId, item, generatedId, operation, headingIndex) ==
  IF operation # "delete"
  THEN << [type |-> "heading", id |-> generatedId, operation |-> operation,
           attributes |-> HeadingAttributes(projectId, item, headingIndex)] >>
  ELSE IF Truthy(item, "id")
       THEN << [type |-> "heading", id |-> item.id, operation |-> "delete"] >>
       ELSE <<>>

\* The entries pushed on createdHeadings for one heading block.
CreatedEntries(item, generatedId, operation) ==
  IF operation # "delete" /\ ~Truthy(item, "id")
  THEN << [id |-> generatedId] @@ (IF Has(item, "title") THEN [title |-> item.title] ELSE <<>>) >>
  ELSE <<>>

\* Mutant of TodoMove: a move into a heading names the heading as its list.
TodoMove_HeadingAsList(projectId, todoId, headingId, todoIndex) ==
  [type |-> "to-do", id |-> todoId, operation |-> "move",
   attributes |-> ("list-id" :> (IF headingId # <<>> THEN headingId[1] ELSE projectId))
                  @@ (IF headingId # <<>> THEN ("heading-id" :> headingId[1]) ELSE <<>>)
                  @@ [index |-> todoIndex]]

\* One to-do move; headingId is <<>> (no heading-id key) or <<id>>.
TodoMove(projectId, todoId, headingId, todoIndex) ==
  [type |-> "to-do", id |-> todoId, operation |-> "move",
   attributes |-> ("list-id" :> projectId)
                  @@ (IF headingId # <<>> THEN ("heading-id" :> headingId[1]) ELSE <<>>)
                  @@ [index |-> todoIndex]]

\* items.forEach((todoId) => { todoOperations.push(...); todoIndex += 1; })
TodoMoves(projectId, items, headingId, todoIndex) ==
  [i \in 1..Len(items) |-> TodoMove(projectId, items[i], headingId, todoIndex + i - 1)]

\* The items of a heading block that are moved:
\* targetHeadingId && item.items?.length, with
\* targetHeadingId = operation === "delete" ? undefined : (providedId ?? generatedId)
HeadingMovedItems(item, generatedId, operation) ==
  IF operation # "delete" /\ generatedId # "" /\ HasItems(item) THEN item.items ELSE <<>>

\* Mutant of NextHeadingIndex: the counter is never advanced.
NextHeadingIndex_Stuck(headingIndex, operation) == headingIndex

\* if (operation !== "delete") headingIndex += 1;
NextHeadingIndex(headingIndex, operation) ==
  IF operation # "delete" THEN headingIndex + 1 ELSE headingIndex

RestructureStart ==
  [headingOperations |-> <<>>, todoOperations |-> <<>>, headingIndex |-> 0,
   todoIndex |-> 0, createdHeadings |-> <<>>, uuidCalls |-> 0]

\* The body of layout.forEach for a heading block.
RestructureHeading(acc, projectId, item) ==
  LET generatedId == GeneratedId(item, acc.uuidCalls)
      operation == HeadingOperation(item)
      moved == HeadingMovedItems(item, generatedId, operation)
  IN [headingOperations |->
        acc.headingOperations
        \o HeadingEntries(projectId, item, generatedId, operation, acc.headingIndex),
      todoOperations |->
        acc.todoOperations \o TodoMoves(projectId, moved, <<generatedId>>, acc.todoIndex),
      headingIndex |-> NextHeadingIndex(acc.headingIndex, operation),
      todoIndex |-> acc.todoIndex + Len(moved),
      createdHeadings |-> acc.createdHeadings \o CreatedEntries(item, generatedId, operation),
      uuidCalls |-> IF Has(item, "id") THEN acc.uuidCalls ELSE acc.uuidCalls + 1]

\* Mutant of RestructureUnsectioned: todoIndex is not advanced past the block.
RestructureUnsectioned_NoAdvance(acc, projectId, item) ==
  LET moved == IF HasItems(item) THEN item.items ELSE <<>>
  IN [acc EXCEPT !.todoOperations = @ \o TodoMoves(projectId, moved, <<>>, acc.todoIndex)]

\* The body of layout.forEach for an unsectioned block.
RestructureUnsectioned(acc, projectId, item) ==
  LET moved == IF HasItems(item) THEN item.items ELSE <<>>
  IN [acc EXCEPT !.todoOperations = @ \o TodoMoves(projectId, moved, <<>>, acc.todoIndex),
                 !.todoIndex = @ + Len(moved)]

RECURSIVE RestructureFold(_, _, _)
RestructureFold(acc, projectId, layout) ==
  IF layout = <<>> THEN acc
  ELSE LET item == Head(layout)
           next == IF item.type = "heading"
                   THEN RestructureHeading(acc, projectId, item)
                   ELSE RestructureUnsectioned(acc, projectId, item)
       IN RestructureFold(next, projectId, Tail(layout))

\* Mutant of RestructureResult: the to-do operations are put first.
RestructureResult_TodosFirst(acc) ==
  [operations |-> acc.todoOperations \o acc.headingOperations,
   createdHeadings |-> acc.createdHeadings]

\* return { operations: [...headingOperations, ...todoOperations], createdHeadings }
RestructureResult(acc) ==
  [operations |-> acc.headingOperations \o acc.todoOperations,
   createdHeadings |-> acc.createdHeadings]

buildRestructurePayload(projectId, layout) ==
  RestructureResult(RestructureFold(RestructureStart, projectId, layout))

(***************************************************************************)
(* Specification SpecRestructure: buildRestructurePayload applied to every *)
(* layout of the input domain.                                             *)
(***************************************************************************)
NoEnv == <<>>
NoOut == [status |-> "none"]

\* The call is buildRestructurePayload(p, layout) for a layout that extends
\* `prefix` by at most n blocks supplying at most f optional fields in all;
\* layout: z.array(...).min(1).
RECURSIVE RestructureCallFrom(_, _, _)
RestructureCallFrom(prefix, n, f) ==
  \/ /\ prefix # <<>>
     /\ \E p \in ProjectIds :
          call = [fn |-> "buildRestructurePayload", projectId |-> p, layout |-> prefix]
  \/ /\ n > 0
     /\ \E b \in BlocksUpTo[f] : RestructureCallFrom(Append(prefix, b), n - 1, f - Supplied(b))

InitRestructure ==
  /\ RestructureCallFrom(<<>>, MaxLayout, MaxFields)
  /\ env = NoEnv
  /\ pc = "call"
  /\ out = NoOut
  /\ opened = <<>>

ApplyBuildRestructure ==
  /\ pc = "call"
  /\ call.fn = "buildRestructurePayload"
  /\ out' = buildRestructurePayload(call.projectId, call.layout)
  /\ pc' = "done"
  /\ UNCHANGED <<call, env, opened>>

NextRestructure == ApplyBuildRestructure

SpecRestructure == InitRestructure /\ [][NextRestructure]_vars

(***************************************************************************)
(* Properties of buildRestructurePayload (SpecRestructure).                *)
(***************************************************************************)
RestructureDone == pc = "done" /\ call.fn = "buildRestructurePayload"

IsHeadingEntry(e) == e.type = "heading"
IsTodoEntry(e) == e.type = "to-do"
IsHeadingBlock(b) == b.type = "heading"
IsLiveHeadingEntry(e) == e.type = "heading" /\ e.operation # "delete"

RECURSIVE Flatten(_)
Flatten(ss) == IF ss = <<>> THEN <<>> ELSE Head(ss) \o Flatten(Tail(ss))

\* The item ids the blocks of a layout list, in layout order.
ListedItems(layout) ==
  Flatten([i \in 1..Len(layout) |->
             IF Has(layout[i], "items") THEN layout[i].items ELSE <<>>])

OnlyUnsectioned(layout) == \A i \in 1..Len(layout) : layout[i].type = "unsectioned"

\* The heading blocks of a layout, in layout order.
HeadingBlocks(layout) == SelectSeq(layout, IsHeadingBlock)

\* C1: a layout of unsectioned blocks only yields no heading operation and one
\* `move` per listed item id, in layout order, with index 0,1,...,n-1.
C1_UnsectionedOnlyMoves ==
  (RestructureDone /\ OnlyUnsectioned(call.layout)) =>
    LET ops == out.operations
        ids == ListedItems(call.layout)
    IN /\ \A i \in 1..Len(ops) : ~IsHeadingEntry(ops[i])
       /\ Len(ops) = Len(ids)
       /\ \A i \in 1..Len(ops) :
            /\ ops[i].type = "to-do"
            /\ ops[i].operation = "move"
            /\ ops[i].id = ids[i]
            /\ ops[i].attributes.index = i - 1

\* Two unsectioned blocks, three items: the moves carry index 0, 1, 2.
C1_Witness ==
  /\ RestructureDone
  /\ OnlyUnsectioned(call.layout)
  /\ Len(call.layout) = 2
  /\ HasItems(call.layout[1]) /\ HasItems(call.layout[2])
  /\ Len(out.operations) = 3
  /\ out.operations[3].attributes.index = 2

\* The operation the claim gives a heading block, with "has an id" and "a
\* title" read as: the field is supplied.
ClaimedOperationAsGiven(b) ==
  IF Has(b, "operation") THEN b.operation
  ELSE IF ~Has(b, "id") THEN "create"
  ELSE IF Has(b, "title") \/ Has(b, "index") THEN "update"
  ELSE "move"

\* The same, an empty string counting as a field that is not given.
ClaimedOperationNonEmpty(b) ==
  IF Has(b, "operation") THEN b.operation
  ELSE IF ~Truthy(b, "id") THEN "create"
  ELSE IF Truthy(b, "title") \/ Has(b, "index") THEN "update"
  ELSE "move"

\* A heading block has an entry in the payload unless it is a delete of a
\* heading without an id.
ClaimedAsGivenEmits(b) == ~(ClaimedOperationAsGiven(b) = "delete" /\ ~Truthy(b, "id"))
ClaimedNonEmptyEmits(b) == ~(ClaimedOperationNonEmpty(b) = "delete" /\ ~Truthy(b, "id"))

EntryOperations(ops) ==
  LET hs == SelectSeq(ops, IsHeadingEntry) IN [i \in 1..Len(hs) |-> hs[i].operation]

\* C2 as stated: the operation of every heading entry is the explicit one, or
\* create / update / move by the presence of id, title and index.
C2_OperationAsStated ==
  RestructureDone =>
    LET bs == SelectSeq(HeadingBlocks(call.layout), ClaimedAsGivenEmits)
    IN EntryOperations(out.operations) = [i \in 1..Len(bs) |-> ClaimedOperationAsGiven(bs[i])]

\* C2 amended: the same with an empty-string id or title counted as not given.
C2_OperationInferred ==
  RestructureDone =>
    LET bs == SelectSeq(HeadingBlocks(call.layout), ClaimedNonEmptyEmits)
    IN EntryOperations(out.operations) = [i \in 1..Len(bs) |-> ClaimedOperationNonEmpty(bs[i])]

\* A heading with an id only (move) followed by one with an id and a title
\* (update), neither with an explicit operation.
C2_Witness ==
  /\ RestructureDone
  /\ Len(call.layout) = 2
  /\ \A i \in 1..2 : IsHeadingBlock(call.layout[i]) /\ ~Has(call.layout[i], "operation")
                     /\ Truthy(call.layout[i], "id")
  /\ DOMAIN call.layout[1] = {"type", "id"}
  /\ Truthy(call.layout[2], "title")
  /\ EntryOperations(out.operations) = <<"move", "update">>

\* The heading blocks that have an entry in the payload, in layout order.
EmitsEntry(b) == IsHeadingBlock(b) /\ ~(HeadingOperation(b) = "delete" /\ ~Truthy(b, "id"))
EmittingBlocks(layout) == SelectSeq(layout, EmitsEntry)

\* C3: every heading entry has a non-empty id: the block's id when it has one,
\* otherwise a generated id that no other entry of the payload carries.
C3_HeadingIdsNonEmpty ==
  RestructureDone =>
    LET ops == out.operations
        hs == SelectSeq(ops, IsHeadingEntry)
        bs == EmittingBlocks(call.layout)
    IN /\ Len(hs) = Len(bs)
       /\ \A k \in 1..Len(hs) :
            /\ hs[k].id # ""
            /\ Has(bs[k], "id") => hs[k].id = bs[k].id
            /\ ~Has(bs[k], "id") =>
                 Cardinality({ j \in 1..Len(ops) : ops[j].id = hs[k].id }) = 1

\* The heading blocks whose entry is not a delete, in layout order.
IsLiveBlock(b) == IsHeadingBlock(b) /\ HeadingOperation(b) # "delete"
LiveBlocks(layout) == SelectSeq(layout, IsLiveBlock)

\* C4 as stated: the index attributes of the non-delete heading entries are
\* strictly increasing in layout order.
C4_HeadingIndexIncreasing ==
  RestructureDone =>
    LET hs == SelectSeq(out.operations, IsLiveHeadingEntry)
    IN \A i, j \in 1..Len(hs) : i < j => hs[i].attributes.index < hs[j].attributes.index

\* C4 amended: the index attributes of the non-delete heading entries whose
\* block gives no explicit index are strictly increasing in layout order.
C4_CounterIndexIncreasing ==
  RestructureDone =>
    LET hs == SelectSeq(out.operations, IsLiveHeadingEntry)
        bs == LiveBlocks(call.layout)
    IN /\ Len(hs) = Len(bs)
       /\ \A i, j \in 1..Len(hs) :
            (i < j /\ ~Has(bs[i], "index") /\ ~Has(bs[j], "index"))
              => hs[i].attributes.index < hs[j].attributes.index

\* Two headings without an explicit index get 0 and 1.
C4_Witness ==
  /\ RestructureDone
  /\ Len(call.layout) = 2
  /\ \A i \in 1..2 : IsLiveBlock(call.layout[i]) /\ ~Has(call.layout[i], "index")
  /\ LET hs == SelectSeq(out.operations, IsLiveHeadingEntry)
     IN Len(hs) = 2 /\ hs[1].attributes.index = 0 /\ hs[2].attributes.index = 1

\* The item ids that are moved, in layout order: the items of the unsectioned
\* blocks and of the heading blocks that are not deleted and have an id.
MovedItems(layout) ==
  Flatten([i \in 1..Len(layout) |->
     LET b == layout[i]
     IN IF ~Has(b, "items") THEN <<>>
        ELSE IF ~IsHeadingBlock(b) THEN b.items
        ELSE IF HeadingOperation(b) # "delete" /\ (Has(b, "id") => b.id # "")
             THEN b.items ELSE <<>>])

\* C5: the operations are one flat list of heading and to-do entries without
\* `items`, the headings before the to-dos, each group in layout order.
C5_FlatOrderedList ==
  RestructureDone =>
    LET ops == out.operations
        hs == SelectSeq(ops, IsHeadingEntry)
        ts == SelectSeq(ops, IsTodoEntry)
        bs == EmittingBlocks(call.layout)
        ids == MovedItems(call.layout)
    IN /\ \A i \in 1..Len(ops) : ~Has(ops[i], "items") /\ ops[i].type \in {"heading", "to-do"}
       /\ \A i, j \in 1..Len(ops) :
            (IsTodoEntry(ops[i]) /\ IsHeadingEntry(ops[j])) => j < i
       /\ Len(hs) = Len(bs)
       /\ \A k \in 1..Len(hs) :
            /\ hs[k].operation = HeadingOperation(bs[k])
            /\ Has(bs[k], "id") => hs[k].id = bs[k].id
       /\ Len(ts) = Len(ids)
       /\ \A k \in 1..Len(ts) : ts[k].id = ids[k]

\* An unsectioned block with items, then a heading: the heading entry comes
\* first in the operations.
C5_Witness ==
  /\ RestructureDone
  /\ Len(call.layout) = 2
  /\ call.layout[1].type = "unsectioned" /\ HasItems(call.layout[1])
  /\ IsHeadingBlock(call.layout[2])
  /\ Len(out.operations) >= 2
  /\ IsHeadingEntry(out.operations[1])
  /\ IsTodoEntry(out.operations[2])

(***************************************************************************)
(* Input domain of buildStructuredProjectPayload: StructuredProjectSchema. *)
(* A checklist item given as a string s is [kind |-> "string", title |-> s]*)
(* and one given as an object is [kind |-> "object", title |-> ...] with   *)
(* `completed` when it is supplied.                                        *)
(***************************************************************************)
Texts == {"", "x"}
Titles == {"", "A"}
TagLists == {<<>>, <<"t">>}
ChecklistItemSchema ==
  {[kind |-> "string", title |-> "c"]}
  \cup WithOptional({[kind |-> "object", title |-> "c"]}, "completed", BOOLEAN)
ChecklistLists ==
  {<<>>, <<[kind |-> "string", title |-> "c"]>>, <<[kind |-> "object", title |-> "c"]>>,
   <<[kind |-> "object", title |-> "d", completed |-> FALSE],
     [kind |-> "object", title |-> "c", completed |-> TRUE]>>}

TodoOptionalFields ==
  << <<"notes", Texts>>, <<"when", Texts>>, <<"deadline", Texts>>,
     <<"checklistItems", ChecklistLists>>, <<"tags", TagLists>>,
     <<"canceled", BOOLEAN>>, <<"completed", BOOLEAN>>, <<"area", Texts>>,
     <<"area-id", Texts>>, <<"heading-id", Texts>>, <<"list-id", Texts>>,
     <<"index", IndexValues>> >>

HeadingOptionalFields == << <<"notes", Texts>>, <<"index", IndexValues>> >>

ProjectOptionalFields ==
  << <<"notes", Texts>>, <<"when", Texts>>, <<"deadline", Texts>>, <<"tags", TagLists>>,
     <<"area", Texts>>, <<"area-id", Texts>>, <<"canceled", BOOLEAN>>,
     <<"completed", BOOLEAN>>, <<"index", IndexValues>> >>

\* An entry and its optional fields count: `type` and `title` are the entry.
EntrySize(e) == Cardinality(DOMAIN e) - 1

\* StructuredTodoSchema, of size at most MaxProjectSize.
StructuredTodoSchema ==
  WithFieldsUpTo({ [type |-> "to-do", title |-> t] : t \in Titles },
                 TodoOptionalFields, MaxProjectSize + 1)

\* StructuredHeadingSchema without `items`.
StructuredHeadingSchema ==
  WithFieldsUpTo({ [type |-> "heading", title |-> t] : t \in Titles },
                 HeadingOptionalFields, MaxProjectSize + 1)

\* StructuredProjectSchema without `items`; the project itself is no entry.
StructuredProjectSchema ==
  WithFieldsUpTo({ [title |-> "P"] }, ProjectOptionalFields, MaxProjectSize + 1)

TodosUpTo == [f \in 0..MaxProjectSize |-> { t \in StructuredTodoSchema : EntrySize(t) <= f }]
HeadingsUpTo == [f \in 0..MaxProjectSize |-> { h \in StructuredHeadingSchema : EntrySize(h) <= f }]

(***************************************************************************)
(* buildChecklistItems, buildTodo, buildProjectItems,                      *)
(* buildStructuredProjectPayload                                           *)
(***************************************************************************)
\* if (obj[key]) attributes[key] = obj[key]   (a string field)
CopyTruthy(obj, key) == IF Truthy(obj, key) THEN (key :> obj[key]) ELSE <<>>

\* Mutant of CopyDefined: the field is tested by truthiness, which drops
\* false and 0.
CopyDefined_Truthy(obj, key) ==
  IF Has(obj, key) /\ (IF key = "index" THEN obj[key] # 0 ELSE obj[key])
  THEN (key :> obj[key]) ELSE <<>>

\* if (obj[key] !== undefined) attributes[key] = obj[key]
CopyDefined(obj, key) == IF Has(obj, key) THEN (key :> obj[key]) ELSE <<>>

\* if (obj.tags?.length) attributes.tags = obj.tags
CopyNonEmpty(obj, key) ==
  IF Has(obj, key) /\ Len(obj[key]) > 0 THEN (key :> obj[key]) ELSE <<>>

buildChecklistItems(items) ==
  [i \in 1..Len(items) |->
     IF items[i].kind = "string"
     THEN [type |-> "checklist-item", attributes |-> [title |-> items[i].title]]
     ELSE [type |-> "checklist-item",
           attributes |-> [title |-> items[i].title] @@ CopyDefined(items[i], "completed")]]

buildTodo(todo) ==
  LET attributes ==
        [title |-> todo.title]
        @@ CopyTruthy(todo, "notes") @@ CopyTruthy(todo, "when")
        @@ CopyTruthy(todo, "deadline") @@ CopyNonEmpty(todo, "tags")
        @@ CopyDefined(todo, "canceled") @@ CopyDefined(todo, "completed")
        @@ CopyTruthy(todo, "area") @@ CopyTruthy(todo, "area-id")
        @@ CopyTruthy(todo, "heading-id") @@ CopyTruthy(todo, "list-id")
        @@ CopyDefined(todo, "index")
  IN [type |-> "to-do", attributes |-> attributes]
     @@ (IF Has(todo, "checklistItems") /\ Len(todo.checklistItems) > 0
         THEN [items |-> buildChecklistItems(todo.checklistItems)] ELSE <<>>)

buildTodos(todos) == [i \in 1..Len(todos) |-> buildTodo(todos[i])]

\* Mutant of buildHeading: a heading entry always has an `items` key.
buildHeading_ItemsAlways(item) ==
  [type |-> "heading",
   attributes |-> [title |-> item.title] @@ CopyTruthy(item, "notes") @@ CopyDefined(item, "index"),
   items |-> IF HasItems(item) THEN buildTodos(item.items) ELSE <<>>]

\* The heading branch of buildProjectItems.
buildHeading(item) ==
  [type |-> "heading",
   attributes |-> [title |-> item.title] @@ CopyTruthy(item, "notes") @@ CopyDefined(item, "index")]
  @@ (IF HasItems(item) THEN [items |-> buildTodos(item.items)] ELSE <<>>)

\* items.map(...): a heading keeps its to-dos in its own `items`.
buildProjectItems(items) ==
  [i \in 1..Len(items) |->
     IF items[i].type = "heading" THEN buildHeading(items[i]) ELSE buildTodo(items[i])]

buildStructuredProjectPayload(project) ==
  LET attributes ==
        [title |-> project.title]
        @@ CopyTruthy(project, "notes") @@ CopyTruthy(project, "when")
        @@ CopyTruthy(project, "deadline") @@ CopyNonEmpty(project, "tags")
        @@ CopyTruthy(project, "area") @@ CopyTruthy(project, "area-id")
        @@ CopyDefined(project, "canceled") @@ CopyDefined(project, "completed")
        @@ CopyDefined(project, "index")
  IN << [type |-> "project", attributes |-> attributes]
        @@ (IF HasItems(project) THEN [items |-> buildProjectItems(project.items)] ELSE <<>>) >>

(***************************************************************************)
(* Specification SpecProject: buildStructuredProjectPayload applied to     *)
(* every structured project of size at most MaxProjectSize.                *)
(***************************************************************************)
\* The call is buildStructuredProjectPayload(project), the project's items
\* extending `items` by entries of size at most f in all; `heading` is <<>>
\* or <<h>>, a heading whose to-dos `nested` are still being listed.
RECURSIVE ProjectCallFrom(_, _, _, _, _)
ProjectCallFrom(project, items, heading, nested, f) ==
  IF heading = <<>>
  THEN \/ /\ items # <<>>
          /\ call = [fn |-> "buildStructuredProjectPayload",
                     project |-> project @@ [items |-> items]]
       \/ \E t \in TodosUpTo[f] :
            ProjectCallFrom(project, Append(items, t), <<>>, <<>>, f - EntrySize(t))
       \/ \E h \in HeadingsUpTo[f] :
            \/ ProjectCallFrom(project, Append(items, h), <<>>, <<>>, f - EntrySize(h))
            \/ /\ f - EntrySize(h) >= 1
               /\ ProjectCallFrom(project, Append(items, h @@ [items |-> <<>>]), <<>>, <<>>,
                                  f - EntrySize(h) - 1)
            \/ ProjectCallFrom(project, items, <<h>>, <<>>, f - EntrySize(h))
  ELSE \/ /\ nested # <<>>
          /\ ProjectCallFrom(project, Append(items, heading[1] @@ [items |-> nested]),
                             <<>>, <<>>, f)
       \/ \E t \in TodosUpTo[f] :
            ProjectCallFrom(project, items, heading, Append(nested, t), f - EntrySize(t))

InitProject ==
  /\ \E project \in StructuredProjectSchema :
       LET f == MaxProjectSize - (Cardinality(DOMAIN project) - 1)
       IN /\ f >= 0
          /\ \/ call = [fn |-> "buildStructuredProjectPayload", project |-> project]
             \/ /\ f >= 1
                /\ call = [fn |-> "buildStructuredProjectPayload",
                           project |-> project @@ [items |-> <<>>]]
             \/ ProjectCallFrom(project, <<>>, <<>>, <<>>, f)
  /\ env = NoEnv
  /\ pc = "call"
  /\ out = NoOut
  /\ opened = <<>>

ApplyBuildStructuredProject ==
  /\ pc = "call"
  /\ call.fn = "buildStructuredProjectPayload"
  /\ out' = [payload |-> buildStructuredProjectPayload(call.project)]
  /\ pc' = "done"
  /\ UNCHANGED <<call, env, opened>>

NextProject == ApplyBuildStructuredProject

SpecProject == InitProject /\ [][NextProject]_vars

(***************************************************************************)
(* Properties of buildStructuredProjectPayload (SpecProject).              *)
(***************************************************************************)
ProjectDone == pc = "done" /\ call.fn = "buildStructuredProjectPayload"

\* <<type, title>> of each entry of a list of input items or payload entries.
InputShape(items) == [i \in 1..Len(items) |-> <<items[i].type, items[i].title>>]
EntryShape(entries) ==
  [i \in 1..Len(entries) |-> <<entries[i].type, entries[i].attributes.title>>]

\* The input items with the to-dos of each heading put directly after it.
FlattenedShape(items) ==
  Flatten([i \in 1..Len(items) |->
     <<<<items[i].type, items[i].title>>>>
     \o (IF items[i].type = "heading" /\ Has(items[i], "items")
         THEN InputShape(items[i].items) ELSE <<>>)])

PayloadItems == IF Has(out.payload[1], "items") THEN out.payload[1].items ELSE <<>>
InputItems == IF Has(call.project, "items") THEN call.project.items ELSE <<>>

\* C6: in the project entry's items no heading entry carries nested
\* items, and the to-dos of a heading follow it in that same list.
C6_ProjectItemsFlattened ==
  ProjectDone =>
    /\ \A i \in 1..Len(PayloadItems) :
         PayloadItems[i].type = "heading" => ~Has(PayloadItems[i], "items")
    /\ EntryShape(PayloadItems) = FlattenedShape(InputItems)

(***************************************************************************)
(* resolveAuthToken.  A token is a sequence of characters; an optional     *)
(* token is <<>> (undefined) or <<token>>.                                 *)
(***************************************************************************)
\* Characters String.prototype.trim removes (those of the model's alphabet).
WhiteSpace == {" ", "\t", "\n"}

RECURSIVE TrimStart(_)
TrimStart(s) == IF s # <<>> /\ Head(s) \in WhiteSpace THEN TrimStart(Tail(s)) ELSE s

RECURSIVE TrimEnd(_)
TrimEnd(s) ==
  IF s # <<>> /\ s[Len(s)] \in WhiteSpace THEN TrimEnd(SubSeq(s, 1, Len(s) - 1)) ELSE s

\* String.prototype.trim
Trim(s) == TrimEnd(TrimStart(s))

\* token && token.trim().length > 0, token being optional
Usable(token) == token # <<>> /\ token[1] # <<>> /\ Len(Trim(token[1])) > 0

\* obj[key], undefined when the key is absent
Opt(obj, key) == IF Has(obj, key) THEN <<obj[key]>> ELSE <<>>

\* The message of the error resolveAuthToken throws (its first sentence).
AuthTokenRequired == "Things auth token is required."

\* Mutant of resolveAuthToken: the tokens are tested without trim().
resolveAuthToken_NoTrim(paramToken, envToken) ==
  IF paramToken # <<>> /\ paramToken[1] # <<>> THEN [returned |-> paramToken[1]]
  ELSE IF envToken # <<>> /\ envToken[1] # <<>> THEN [returned |-> envToken[1]]
  ELSE [threw |-> AuthTokenRequired]

\* resolveAuthToken(paramToken), envToken being process.env.THINGS_AUTH_TOKEN
resolveAuthToken(paramToken, envToken) ==
  IF Usable(paramToken) THEN [returned |-> paramToken[1]]
  ELSE IF Usable(envToken) THEN [returned |-> envToken[1]]
  ELSE [threw |-> AuthTokenRequired]

(***************************************************************************)
(* Specification SpecAuth: resolveAuthToken applied to every optional      *)
(* parameter and every optional THINGS_AUTH_TOKEN of at most MaxTokenLen   *)
(* characters.                                                             *)
(***************************************************************************)
TokenChars == {" ", "\n", "t"}
Tokens == UNION { [1..n -> TokenChars] : n \in 0..MaxTokenLen }
OptionalTokens == {<<>>} \cup { <<t>> : t \in Tokens }

EnvWith(token) == IF token = <<>> THEN NoEnv ELSE [THINGS_AUTH_TOKEN |-> token[1]]

InitAuth ==
  /\ \E p \in OptionalTokens :
       call = [fn |-> "resolveAuthToken"] @@ (IF p = <<>> THEN <<>> ELSE [paramToken |-> p[1]])
  /\ \E e \in OptionalTokens : env = EnvWith(e)
  /\ pc = "call"
  /\ out = NoOut
  /\ opened = <<>>

ApplyResolveAuthToken ==
  /\ pc = "call"
  /\ call.fn = "resolveAuthToken"
  /\ out' = resolveAuthToken(Opt(call, "paramToken"), Opt(env, "THINGS_AUTH_TOKEN"))
  /\ pc' = "done"
  /\ UNCHANGED <<call, env, opened>>

NextAuth == ApplyResolveAuthToken

SpecAuth == InitAuth /\ [][NextAuth]_vars

(***************************************************************************)
(* Properties of resolveAuthToken (SpecAuth).                              *)
(***************************************************************************)
AuthDone == pc = "done" /\ call.fn = "resolveAuthToken"

\* A string that is empty or made of whitespace only.
Blank(s) == \A i \in 1..Len(s) : s[i] \in WhiteSpace

\* C8: the parameter when it is not blank, else THINGS_AUTH_TOKEN when that is
\* not blank, else an error; what is returned is never blank.
C8_TokenPrecedence ==
  AuthDone =>
    /\ IF Has(call, "paramToken") /\ ~Blank(call.paramToken)
       THEN out = [returned |-> call.paramToken]
       ELSE IF Has(env, "THINGS_AUTH_TOKEN") /\ ~Blank(env.THINGS_AUTH_TOKEN)
            THEN out = [returned |-> env.THINGS_AUTH_TOKEN]
            ELSE out = [threw |-> AuthTokenRequired]
    /\ Has(out, "returned") => ~Blank(out.returned)

\* A whitespace-only parameter is passed over for the environment's token.
C8_Witness ==
  /\ AuthDone
  /\ Has(call, "paramToken") /\ call.paramToken # <<>> /\ Blank(call.paramToken)
  /\ Has(env, "THINGS_AUTH_TOKEN")
  /\ Has(out, "returned")
  /\ out.returned = env.THINGS_AUTH_TOKEN

(***************************************************************************)
(* The tool handlers.  A string parameter is a sequence of characters, an  *)
(* array parameter a sequence of strings.  URLSearchParams is the sequence *)
(* of its <<key, value>> entries; an opened URL is [base, params].         *)
(***************************************************************************)
Chars(s) == s # <<>>

\* Mutant of BoolString: every boolean is written "true".
BoolString_AlwaysTrue(b) == <<"t", "r", "u", "e">>

BoolString(b) == IF b THEN <<"t", "r", "u", "e">> ELSE <<"f", "a", "l", "s", "e">>

\* Mutant of Join: the elements in reverse order.
RECURSIVE Join_Reversed(_, _)
Join_Reversed(list, sep) ==
  IF list = <<>> THEN <<>>
  ELSE IF Len(list) = 1 THEN list[1]
  ELSE Join_Reversed(Tail(list), sep) \o sep \o list[1]

\* Array.prototype.join
RECURSIVE Join(_, _)
Join(list, sep) ==
  IF list = <<>> THEN <<>>
  ELSE IF Len(list) = 1 THEN list[1]
  ELSE list[1] \o sep \o Join(Tail(list), sep)

\* URLSearchParams.prototype.set
ParamsSet(ps, key, value) ==
  IF \E i \in 1..Len(ps) : ps[i][1] = key
  THEN [i \in 1..Len(ps) |-> IF ps[i][1] = key THEN <<key, value>> ELSE ps[i]]
  ELSE Append(ps, <<key, value>>)

ParamKeys(ps) == { ps[i][1] : i \in 1..Len(ps) }
ParamValue(ps, key) == ps[CHOOSE i \in 1..Len(ps) : ps[i][1] = key][2]

\* One `if (<test>) urlParams.set(key, <conversion>)` line of a handler.
\*   test:  "truthy"   if (params[key])                  (a string)
\*          "defined"  if (params[key] !== undefined), and if (params[key])
\*                     for an array, which is truthy even when empty
\*          "nonEmpty" if (params[key] && params[key].length > 0)
\*   conv:  "string"   params[key]
\*          "bool"     params[key].toString()
\*          "comma"    params[key].join(",")
\*          "newline"  params[key].join("\n")
Rule(key, test, conv) == [key |-> key, test |-> test, conv |-> conv]

RulePasses(params, rule) ==
  /\ Has(params, rule.key)
  /\ CASE rule.test = "truthy" -> Chars(params[rule.key])
       [] rule.test = "defined" -> TRUE
       [] rule.test = "nonEmpty" -> Len(params[rule.key]) > 0

RuleValue(params, rule) ==
  CASE rule.conv = "string" -> params[rule.key]
    [] rule.conv = "bool" -> BoolString(params[rule.key])
    [] rule.conv = "comma" -> Join(params[rule.key], <<",">>)
    [] rule.conv = "newline" -> Join(params[rule.key], <<"\n">>)

RECURSIVE ApplyRules(_, _, _)
ApplyRules(ps, params, rules) ==
  IF rules = <<>> THEN ps
  ELSE ApplyRules(IF RulePasses(params, Head(rules))
                  THEN ParamsSet(ps, Head(rules).key, RuleValue(params, Head(rules)))
                  ELSE ps,
                  params, Tail(rules))

(***************************************************************************)
(* The text of a URL.  A text is a sequence of characters; a parameter     *)
(* name, and a string of a batch payload, is one element of it: they are   *)
(* made of letters, digits and "-", which no encoding below changes.       *)
(***************************************************************************)
\* The characters of the model that the application/x-www-form-urlencoded
\* serializer writes as a percent escape, with their UTF-8 byte in hex.
Escapes ==
  ( "\"" :> <<"%", "2", "2">> ) @@ ( ";" :> <<"%", "3", "B">> ) @@ ( "#" :> <<"%", "2", "3">> )
  @@ ( "/" :> <<"%", "2", "F">> ) @@ ( "&" :> <<"%", "2", "6">> ) @@ ( "=" :> <<"%", "3", "D">> )
  @@ ( "\n" :> <<"%", "0", "A">> ) @@ ( "\t" :> <<"%", "0", "9">> ) @@ ( "+" :> <<"%", "2", "B">> )
  @@ ( "%" :> <<"%", "2", "5">> ) @@ ( "," :> <<"%", "2", "C">> ) @@ ( ":" :> <<"%", "3", "A">> )
  @@ ( "[" :> <<"%", "5", "B">> ) @@ ( "]" :> <<"%", "5", "D">> )
  @@ ( "{" :> <<"%", "7", "B">> ) @@ ( "}" :> <<"%", "7", "D">> )

\* Mutant of EncodeChar: "+" is left as it is.
EncodeChar_PlusRaw(c) ==
  IF c = " " THEN <<"+">>
  ELSE IF c \in DOMAIN Escapes \ {"+"} THEN Escapes[c] ELSE <<c>>

\* Mutant of EncodeChar: "&" is left as it is.
EncodeChar_AmpersandRaw(c) ==
  IF c = " " THEN <<"+">>
  ELSE IF c \in DOMAIN Escapes \ {"&"} THEN Escapes[c] ELSE <<c>>

\* The serializer, one character: a space is "+", letters, digits and
\* "*", "-", ".", "_" are themselves, any other character is escaped.
EncodeChar(c) ==
  IF c = " " THEN <<"+">>
  ELSE IF c \in DOMAIN Escapes THEN Escapes[c] ELSE <<c>>

\* The concatenation of the texts `parts`, in order.
RECURSIVE Flat(_)
Flat(parts) ==
  IF parts = <<>> THEN <<>>
  ELSE IF Len(parts) = 1 THEN parts[1]
  ELSE LET half == Len(parts) \div 2
       IN Flat(SubSeq(parts, 1, half)) \o Flat(SubSeq(parts, half + 1, Len(parts)))

Encode(text) == Flat([i \in 1..Len(text) |-> EncodeChar(text[i])])

\* URLSearchParams.prototype.toString
RECURSIVE ToQueryString(_)
ToQueryString(ps) ==
  IF ps = <<>> THEN <<>>
  ELSE <<ps[1][1]>> \o <<"=">> \o Encode(ps[1][2])
       \o (IF Len(ps) = 1 THEN <<>> ELSE <<"&">> \o ToQueryString(Tail(ps)))

\* const url = `things:///...?${urlParams.toString()}`; params is the
\* URLSearchParams object the text was made from.
ThingsURL(base, ps) == [base |-> base, params |-> ps, query |-> ToQueryString(ps)]

\* --- JSON.stringify of the batch payloads ----------------------------------
JsonString(str) == <<"\"">> \o (IF str = "" THEN <<>> ELSE <<str>>) \o <<"\"">>

RECURSIVE JsonNumber(_)
JsonNumber(n) ==
  IF n < 10 THEN <<Digits[n + 1]>> ELSE JsonNumber(n \div 10) \o <<Digits[(n % 10) + 1]>>

JsonArray(elements) == <<"[">> \o Join(elements, <<",">>) \o <<"]">>
JsonMember(key, value) == JsonString(key) \o <<":">> \o value
JsonObject(members) == <<"{">> \o Join(members, <<",">>) \o <<"}">>

\* The value of an attribute, by its type.
AttributeJson(key, value) ==
  CASE key \in {"canceled", "completed"} -> BoolString(value)
    [] key = "index" -> JsonNumber(value)
    [] key = "tags" -> JsonArray([i \in 1..Len(value) |-> JsonString(value[i])])
    [] OTHER -> JsonString(value)

\* The attributes of an entry in the order the builders insert them.
AttributeOrder(entry) ==
  CASE entry.type = "project" ->
         <<"title", "notes", "when", "deadline", "tags", "area", "area-id",
           "canceled", "completed", "index">>
    [] entry.type = "heading" -> <<"project-id", "title", "notes", "index">>
    [] entry.type = "to-do" ->
         IF Has(entry, "operation")
         THEN <<"list-id", "heading-id", "index">>
         ELSE <<"title", "notes", "when", "deadline", "tags", "canceled", "completed",
                "area", "area-id", "heading-id", "list-id", "index">>
    [] entry.type = "checklist-item" -> <<"title", "completed">>

AttributesJson(entry) ==
  LET supplied(key) == Has(entry.attributes, key)
      keys == SelectSeq(AttributeOrder(entry), supplied)
  IN JsonObject([i \in 1..Len(keys) |-> JsonMember(keys[i], AttributeJson(keys[i], entry.attributes[keys[i]]))])

RECURSIVE EntryJson(_)
EntryJson(entry) ==
  JsonObject(
    << JsonMember("type", JsonString(entry.type)) >>
    \o (IF Has(entry, "id") THEN << JsonMember("id", JsonString(entry.id)) >> ELSE <<>>)
    \o (IF Has(entry, "operation")
        THEN << JsonMember("operation", JsonString(entry.operation)) >> ELSE <<>>)
    \o (IF Has(entry, "attributes") THEN << JsonMember("attributes", AttributesJson(entry)) >> ELSE <<>>)
    \o (IF Has(entry, "items")
        THEN << JsonMember("items", JsonArray([i \in 1..Len(entry.items) |-> EntryJson(entry.items[i])])) >>
        ELSE <<>>))

\* JSON.stringify(payload), JSON.stringify(operations)
JSONstringify(entries) == JsonArray([i \in 1..Len(entries) |-> EntryJson(entries[i])])

\* --- add-todo -------------------------------------------------------------
AddTodoRules ==
  << Rule("notes", "truthy", "string"), Rule("when", "truthy", "string"),
     Rule("deadline", "truthy", "string"), Rule("tags", "nonEmpty", "comma"),
     Rule("checklist-items", "nonEmpty", "newline"),
     Rule("use-clipboard", "truthy", "string"), Rule("list-id", "truthy", "string"),
     Rule("list", "truthy", "string"), Rule("heading-id", "truthy", "string"),
     Rule("heading", "truthy", "string"), Rule("completed", "defined", "bool"),
     Rule("canceled", "defined", "bool"), Rule("show-quick-entry", "defined", "bool"),
     Rule("reveal", "defined", "bool"), Rule("creation-date", "truthy", "string"),
     Rule("completion-date", "truthy", "string") >>

\* Handle title vs titles
AddTodoTitle(params) ==
  IF Has(params, "titles") /\ Chars(params.titles) THEN << <<"titles", params.titles>> >>
  ELSE IF Has(params, "title") /\ Chars(params.title) THEN << <<"title", params.title>> >>
  ELSE <<>>

\* Mutant of AddTodoParams: notes is set even when it is not supplied.
AddTodoParams_NotesAlways(params) ==
  ApplyRules(ParamsSet(AddTodoTitle(params), "notes",
                       IF Has(params, "notes") THEN params.notes ELSE <<>>),
             params, Tail(AddTodoRules))

AddTodoParams(params) == ApplyRules(AddTodoTitle(params), params, AddTodoRules)

AddTodoHandler(params) == [open |-> ThingsURL("things:///add?", AddTodoParams(params))]

\* --- add-project ----------------------------------------------------------
AddProjectRules ==
  << Rule("notes", "truthy", "string"), Rule("when", "truthy", "string"),
     Rule("deadline", "truthy", "string"), Rule("tags", "nonEmpty", "comma"),
     Rule("area-id", "truthy", "string"), Rule("area", "truthy", "string"),
     Rule("to-dos", "nonEmpty", "newline"), Rule("completed", "defined", "bool"),
     Rule("canceled", "defined", "bool"), Rule("reveal", "defined", "bool"),
     Rule("creation-date", "truthy", "string"), Rule("completion-date", "truthy", "string") >>

AddProjectParams(params) ==
  ApplyRules(<< <<"title", params.title>> >>, params, AddProjectRules)

AddProjectHandler(params) ==
  [open |-> ThingsURL("things:///add-project?", AddProjectParams(params))]

\* --- create-structured-project and json -----------------------------------
\* const authToken = params["auth-token"] ?? process.env.THINGS_AUTH_TOKEN ?? undefined;
\* if (authToken) urlParams.set("auth-token", authToken);
DirectAuthParams(params, environment) ==
  LET authToken == IF Has(params, "auth-token") THEN <<params["auth-token"]>>
                   ELSE Opt(environment, "THINGS_AUTH_TOKEN")
  IN IF authToken # <<>> /\ Chars(authToken[1])
     THEN << <<"auth-token", authToken[1]>> >> ELSE <<>>

RevealRules == << Rule("reveal", "defined", "bool") >>

CreateStructuredProjectHandler(params, environment) ==
  [open |->
     ThingsURL("things:///json?",
               ApplyRules(ParamsSet(DirectAuthParams(params, environment), "data",
                                    JSONstringify(buildStructuredProjectPayload(params.project))),
                          params, RevealRules))]

\* Mutant of JsonHandler: `data` is set only when it is not empty.
JsonHandler_DataWhenNonEmpty(params, environment) ==
  [open |->
     ThingsURL("things:///json?",
               ApplyRules(IF Chars(params.data)
                          THEN ParamsSet(DirectAuthParams(params, environment), "data", params.data)
                          ELSE DirectAuthParams(params, environment),
                          params, RevealRules))]

\* urlParams.set("data", params.data) is unconditional.
JsonHandler(params, environment) ==
  [open |->
     ThingsURL("things:///json?",
               ApplyRules(ParamsSet(DirectAuthParams(params, environment), "data", params.data),
                          params, RevealRules))]

\* --- update ---------------------------------------------------------------
UpdateRules ==
  << Rule("title", "truthy", "string"), Rule("notes", "defined", "string"),
     Rule("prepend-notes", "truthy", "string"), Rule("append-notes", "truthy", "string"),
     Rule("when", "defined", "string"), Rule("deadline", "defined", "string"),
     Rule("tags", "defined", "comma"), Rule("add-tags", "defined", "comma"),
     Rule("checklist-items", "defined", "newline"),
     Rule("prepend-checklist-items", "defined", "newline"),
     Rule("append-checklist-items", "defined", "newline"),
     Rule("list-id", "truthy", "string"), Rule("list", "truthy", "string"),
     Rule("heading-id", "truthy", "string"), Rule("heading", "truthy", "string"),
     Rule("completed", "defined", "bool"), Rule("canceled", "defined", "bool"),
     Rule("reveal", "defined", "bool"), Rule("duplicate", "defined", "bool"),
     Rule("creation-date", "truthy", "string"), Rule("completion-date", "truthy", "string") >>

\* The handler of update or update-project: the token is resolved first.
AuthorizedHandler(base, rules, params, environment) ==
  LET authToken == resolveAuthToken(Opt(params, "auth-token"), Opt(environment, "THINGS_AUTH_TOKEN"))
  IN IF Has(authToken, "threw") THEN authToken
     ELSE [open |->
             ThingsURL(base, ApplyRules(<< <<"id", params.id>>, <<"auth-token", authToken.returned>> >>,
                                        params, rules))]

\* Mutant of UpdateHandler: without a token the URL is opened without one.
UpdateHandler_OpensUnauthorized(params, environment) ==
  [open |-> ThingsURL("things:///update?",
                      ApplyRules(<< <<"id", params.id>> >> \o DirectAuthParams(params, environment),
                                 params, UpdateRules))]

UpdateHandler(params, environment) ==
  AuthorizedHandler("things:///update?", UpdateRules, params, environment)

\* --- update-project -------------------------------------------------------
UpdateProjectRules ==
  << Rule("title", "truthy", "string"), Rule("notes", "defined", "string"),
     Rule("prepend-notes", "truthy", "string"), Rule("append-notes", "truthy", "string"),
     Rule("when", "defined", "string"), Rule("deadline", "defined", "string"),
     Rule("tags", "defined", "comma"), Rule("add-tags", "defined", "comma"),
     Rule("area-id", "truthy", "string"), Rule("area", "truthy", "string"),
     Rule("completed", "defined", "bool"), Rule("canceled", "defined", "bool"),
     Rule("reveal", "defined", "bool"), Rule("duplicate", "defined", "bool"),
     Rule("creation-date", "truthy", "string"), Rule("completion-date", "truthy", "string") >>

UpdateProjectHandler(params, environment) ==
  AuthorizedHandler("things:///update-project?", UpdateProjectRules, params, environment)

\* --- restructure-project --------------------------------------------------
NoOperations == "No operations generated from layout. Verify that headings or items are provided."

\* Mutant of RestructureProjectHandler: the token is resolved before the
\* operations are counted.
RestructureProjectHandler_TokenFirst(params, environment) ==
  LET built == buildRestructurePayload(params["project-id"], params.layout)
      authToken == resolveAuthToken(Opt(params, "auth-token"), Opt(environment, "THINGS_AUTH_TOKEN"))
  IN IF Has(authToken, "threw") THEN authToken
     ELSE IF Len(built.operations) = 0 THEN [threw |-> NoOperations]
     ELSE [open |->
             ThingsURL("things:///json?",
                       << <<"auth-token", authToken.returned>>,
                          <<"data", JSONstringify(built.operations)>> >>)]

\* operations.length === 0 is tested before resolveAuthToken is called.
RestructureProjectHandler(params, environment) ==
  LET built == buildRestructurePayload(params["project-id"], params.layout)
      authToken == resolveAuthToken(Opt(params, "auth-token"), Opt(environment, "THINGS_AUTH_TOKEN"))
  IN IF Len(built.operations) = 0 THEN [threw |-> NoOperations]
     ELSE IF Has(authToken, "threw") THEN authToken
     ELSE [open |->
             ThingsURL("things:///json?",
                       << <<"auth-token", authToken.returned>>,
                          <<"data", JSONstringify(built.operations)>> >>)]

\* --- show, search, version ------------------------------------------------
ShowParams(params) ==
  ApplyRules(IF Has(params, "id") /\ Chars(params.id) THEN << <<"id", params.id>> >>
             ELSE IF Has(params, "query") /\ Chars(params.query)
                  THEN << <<"query", params.query>> >>
                  ELSE <<>>,
             params, << Rule("filter", "nonEmpty", "comma") >>)

ShowHandler(params) == [open |-> ThingsURL("things:///show?", ShowParams(params))]

SearchHandler(params) ==
  [open |-> ThingsURL("things:///search?",
                      ApplyRules(<<>>, params, << Rule("query", "truthy", "string") >>))]

VersionHandler == [open |-> ThingsURL("things:///version", <<>>)]

\* --- evaluate ---------------------------------------------------------------
ProvideEither == "Provide either id or url, but not both"

\* evaluateSchema.refine: (hasId || hasUrl) && !(hasId && hasUrl)
EvaluateRequestValid(params) ==
  LET hasId == Has(params, "id") /\ Chars(params.id)
      hasUrl == Has(params, "url") /\ Chars(params.url)
  IN (hasId \/ hasUrl) /\ ~(hasId /\ hasUrl)

\* Mutant of EvaluateHandler: a request with both id and url is run on the id.
EvaluateHandler_AcceptsBoth(params) ==
  IF ~(Has(params, "id") /\ Chars(params.id)) /\ ~(Has(params, "url") /\ Chars(params.url))
  THEN [threw |-> ProvideEither]
  ELSE [exec |-> [binary |-> "/usr/bin/osascript",
                  target |-> IF Has(params, "id") THEN params.id ELSE params.url]]

\* The handler up to `await execAsync(command)`; target = params.id ?? params.url.
EvaluateHandler(params) ==
  IF ~EvaluateRequestValid(params) THEN [threw |-> ProvideEither]
  ELSE [exec |-> [binary |-> "/usr/bin/osascript",
                  target |-> IF Has(params, "id") THEN params.id ELSE params.url]]

\* What the script run can come to: execAsync rejects, or resolves with the
\* text the script wrote on stdout (a sequence of characters and JSON tokens).
\* `is` names the case for the properties; the handler does not read it.
ScriptOutcomes ==
  { [rejected |-> "error.message", is |-> "script failure"],
    [stdout |-> <<>>, is |-> "empty output"],
    [stdout |-> <<" ", "\n">>, is |-> "empty output"],
    [stdout |-> <<"oops">>, is |-> "unparsable output"],
    [stdout |-> <<"{", "\"title\"", ":">>, is |-> "unparsable output"],
    [stdout |-> <<"{", "\"error\"", ":", "\"e\"", "}", "\n">>, is |-> "error object"],
    [stdout |-> <<"{", "\"error\"", ":", "\"e\"", ",", "\"message\"", ":", "\"m\"", "}">>,
     is |-> "error object"],
    [stdout |-> <<"{", "\"error\"", ":", "1", "}">>, is |-> "item"],
    [stdout |-> <<"null", "\n">>, is |-> "item"],
    [stdout |-> <<"{", "\"title\"", ":", "\"T\"", "}", "\n">>, is |-> "item"] }

\* The JSON string literals of the script outputs, and the strings they denote.
StringValue ==
  ("\"error\"" :> "error") @@ ("\"message\"" :> "message") @@ ("\"title\"" :> "title")
  @@ ("\"e\"" :> "e") @@ ("\"m\"" :> "m") @@ ("\"T\"" :> "T")
NumberTokens == {"1"}
ScalarTokens == DOMAIN StringValue \cup NumberTokens \cup {"null"}

JsonScalar(token) ==
  IF token \in DOMAIN StringValue THEN [type |-> "string", value |-> StringValue[token]]
  ELSE IF token \in NumberTokens THEN [type |-> "number", value |-> token]
  ELSE [type |-> "null"]

NotJson == [ok |-> FALSE]

\* The members of an object: name : scalar, separated by ",".
RECURSIVE ParseMembers(_)
ParseMembers(t) ==
  IF t = <<>> THEN [ok |-> TRUE, members |-> <<>>]
  ELSE IF Len(t) >= 3 /\ t[1] \in DOMAIN StringValue /\ t[2] = ":" /\ t[3] \in ScalarTokens
  THEN LET member == <<StringValue[t[1]], JsonScalar(t[3])>>
       IN IF Len(t) = 3 THEN [ok |-> TRUE, members |-> <<member>>]
          ELSE IF t[4] = "," /\ Len(t) > 4
          THEN LET rest == ParseMembers(SubSeq(t, 5, Len(t)))
               IN IF rest.ok THEN [ok |-> TRUE, members |-> <<member>> \o rest.members]
                  ELSE NotJson
          ELSE NotJson
  ELSE NotJson

\* JSON.parse, for a scalar or an object of scalars: the value, or a throw.
JSONparse(t) ==
  IF Len(t) = 1 /\ t[1] \in ScalarTokens THEN [ok |-> TRUE, value |-> JsonScalar(t[1])]
  ELSE IF Len(t) >= 2 /\ t[1] = "{" /\ t[Len(t)] = "}"
  THEN LET inner == ParseMembers(SubSeq(t, 2, Len(t) - 1))
       IN IF inner.ok THEN [ok |-> TRUE, value |-> [type |-> "object", members |-> inner.members]]
          ELSE NotJson
  ELSE NotJson

\* "name" in parsed, and parsed[name]: the last member of that name.
HasMember(value, name) ==
  value.type = "object" /\ \E i \in 1..Len(value.members) : value.members[i][1] = name
Member(value, name) ==
  LET at == { i \in 1..Len(value.members) : value.members[i][1] = name }
  IN value.members[CHOOSE i \in at : \A j \in at : j <= i][2]

\* typeof parsed === "object" && parsed !== null && "error" in parsed
\*   && typeof parsed.error === "string"
IsErrorPayload(value) ==
  HasMember(value, "error") /\ Member(value, "error").type = "string"

Quote(string) == CHOOSE token \in DOMAIN StringValue : StringValue[token] = string

\* JSON.stringify(value, null, indent): indent is <<>> for the compact text.
ScalarText(scalar) ==
  IF scalar.type = "string" THEN Quote(scalar.value)
  ELSE IF scalar.type = "number" THEN scalar.value
  ELSE "null"
JsonText(value, indent) ==
  IF value.type # "object" THEN <<ScalarText(value)>>
  ELSE IF value.members = <<>> THEN <<"{", "}">>
  ELSE LET line == IF indent = <<>> THEN <<>> ELSE <<"\n">>
           space == IF indent = <<>> THEN <<>> ELSE <<" ">>
           member(i) == (IF i = 1 THEN <<>> ELSE <<",">>) \o line \o indent
                        \o <<Quote(value.members[i][1]), ":">> \o space
                        \o <<ScalarText(value.members[i][2])>>
       IN <<"{">> \o Flat([i \in 1..Len(value.members) |-> member(i)]) \o line \o <<"}">>

\* encodeURIComponent: a space is %20; the other characters of the model's
\* alphabet are written as the query serializer writes them.
encodeURIComponent(text) ==
  Flat([i \in 1..Len(text) |-> IF text[i] = " " THEN <<"%", "2", "0">> ELSE EncodeChar(text[i])])

EvaluateTarget(c) == IF Has(c.params, "id") THEN c.params.id ELSE c.params.url

\* Mutant of EvaluateTry: an error payload is returned like any other value.
EvaluateTry_ErrorReturned(c, outcome) ==
  IF Has(outcome, "rejected") THEN [threw |-> <<outcome.rejected>>]
  ELSE LET trimmed == Trim(outcome.stdout)
           parsed == JSONparse(trimmed)
       IN IF trimmed = <<>>
          THEN [threw |-> <<"No data returned from Things evaluate script.">>]
          ELSE IF ~parsed.ok
          THEN [threw |-> <<"Failed to parse Things evaluation result: ", "String(jsonError)">>]
          ELSE [content |-> << [type |-> "resource",
                                resource |-> [text |-> JsonText(parsed.value, <<" ", " ">>),
                                              uri |-> <<"things-evaluate://">>
                                                      \o encodeURIComponent(EvaluateTarget(c)),
                                              mimeType |-> "application/json"]] >>]

\* The try block of the handler, from `await execAsync(command)` on: what it
\* returns, or the message of what it throws.
EvaluateTry(c, outcome) ==
  IF Has(outcome, "rejected") THEN [threw |-> <<outcome.rejected>>]
  ELSE LET trimmed == Trim(outcome.stdout)
           parsed == JSONparse(trimmed)
       IN IF trimmed = <<>>
          THEN [threw |-> <<"No data returned from Things evaluate script.">>]
          ELSE IF ~parsed.ok
          THEN [threw |-> <<"Failed to parse Things evaluation result: ", "String(jsonError)">>]
          ELSE IF IsErrorPayload(parsed.value)
          THEN [threw |->
                  <<"Things evaluate script returned error: ">>
                  \o (IF HasMember(parsed.value, "message")
                         /\ Member(parsed.value, "message").type = "string"
                      THEN <<Member(parsed.value, "message").value>>
                      ELSE JsonText(parsed.value, <<>>))]
          ELSE [content |-> << [type |-> "resource",
                                resource |-> [text |-> JsonText(parsed.value, <<" ", " ">>),
                                              uri |-> <<"things-evaluate://">>
                                                      \o encodeURIComponent(EvaluateTarget(c)),
                                              mimeType |-> "application/json"]] >>]

EvaluateFailedPrefix == "Failed to evaluate Things item: "

\* catch (error) { throw new Error(`Failed to evaluate Things item:
\* ${error.message}`) }: what the try block throws is an Error.
EvaluateCatch(result) ==
  IF Has(result, "threw") THEN [threw |-> <<EvaluateFailedPrefix>> \o result.threw]
  ELSE result

\* The handler after `await execAsync(command)`.
EvaluateResult(c, outcome) == EvaluateCatch(EvaluateTry(c, outcome))

\* --- what a tool returns once openThingsURL has resolved --------------------
TextContent(text) == [content |-> << [type |-> "text", text |-> text] >>]

Untitled == <<"u", "n", "t", "i", "t", "l", "e", "d">>

SuccessResult(c) ==
  CASE c.tool = "add-todo" ->
         IF Has(c.params, "titles") /\ Chars(c.params.titles)
         THEN TextContent([template |-> "todos created successfully in Things", args |-> <<>>])
         ELSE TextContent([template |-> "todo \"$1\" created successfully in Things",
                           args |-> << IF Has(c.params, "title") /\ Chars(c.params.title)
                                       THEN c.params.title ELSE Untitled >>])
    [] c.tool = "add-project" ->
         TextContent([template |-> "Project \"$1\" created successfully in Things",
                      args |-> <<c.params.title>>])
    [] c.tool = "create-structured-project" ->
         TextContent([template |-> "Structured project \"$1\" created successfully in Things",
                      args |-> <<c.params.project.title>>])
    [] c.tool = "update" ->
         TextContent([template |-> "Todo updated successfully in Things", args |-> <<>>])
    [] c.tool = "update-project" ->
         TextContent([template |-> "Project updated successfully in Things", args |-> <<>>])
    [] c.tool = "restructure-project" ->
         TextContent([template |-> "Project $1 restructured successfully in Things",
                      args |-> <<c.params["project-id"]>>,
                      newHeadings |->
                        buildRestructurePayload(c.params["project-id"], c.params.layout).createdHeadings])
    [] c.tool = "show" ->
         TextContent([template |-> "Opened $1 in Things",
                      args |-> << IF Has(c.params, "id") /\ Chars(c.params.id) THEN c.params.id
                                  ELSE IF Has(c.params, "query") /\ Chars(c.params.query)
                                       THEN c.params.query
                                       ELSE <<"T", "h", "i", "n", "g", "s">> >>])
    [] c.tool = "search" ->
         IF Has(c.params, "query") /\ Chars(c.params.query)
         THEN TextContent([template |-> "Searching for \"$1\" in Things", args |-> <<c.params.query>>])
         ELSE TextContent([template |-> "Opened search in Things", args |-> <<>>])
    [] c.tool = "version" ->
         TextContent([template |-> "Retrieved Things version information", args |-> <<>>])
    [] c.tool = "json" ->
         TextContent([template |-> "JSON data processed successfully in Things", args |-> <<>>])

(***************************************************************************)
(* Input domain of the tools: the zod schema of each.                      *)
(***************************************************************************)
\* A string of the characters a query string gives a meaning to.
Special == <<"\"", ";", "#", "/", "&", "=", " ", "\n", "+", "%">>
Strs == {<<>>, <<"a">>, Special}
Lists == { <<>>, << <<"a">>, <<"b", "c">> >>, << <<"a", ",", "b", "\n">> >> }
ToolTokens == {<<>>, <<" ">>, <<"t">>}
UseClipboardValues ==
  { <<"r", "e", "p", "l", "a", "c", "e", "-", "t", "i", "t", "l", "e">>,
    <<"r", "e", "p", "l", "a", "c", "e", "-", "n", "o", "t", "e", "s">> }
ItemIds == {<<"i", "d">>}

AddTodoFields ==
  << <<"title", Strs>>, <<"titles", Strs>>, <<"notes", Strs>>, <<"when", Strs>>,
     <<"deadline", Strs>>, <<"tags", Lists>>, <<"checklist-items", Lists>>,
     <<"use-clipboard", UseClipboardValues>>, <<"list-id", Strs>>, <<"list", Strs>>,
     <<"heading-id", Strs>>, <<"heading", Strs>>, <<"completed", BOOLEAN>>,
     <<"canceled", BOOLEAN>>, <<"show-quick-entry", BOOLEAN>>, <<"reveal", BOOLEAN>>,
     <<"creation-date", Strs>>, <<"completion-date", Strs>> >>

AddProjectFields ==
  << <<"notes", Strs>>, <<"when", Strs>>, <<"deadline", Strs>>, <<"tags", Lists>>,
     <<"area-id", Strs>>, <<"area", Strs>>, <<"to-dos", Lists>>, <<"completed", BOOLEAN>>,
     <<"canceled", BOOLEAN>>, <<"reveal", BOOLEAN>>, <<"creation-date", Strs>>,
     <<"completion-date", Strs>> >>

UpdateFields ==
  << <<"auth-token", ToolTokens>>, <<"title", Strs>>, <<"notes", Strs>>,
     <<"prepend-notes", Strs>>, <<"append-notes", Strs>>, <<"when", Strs>>,
     <<"deadline", Strs>>, <<"tags", Lists>>, <<"add-tags", Lists>>,
     <<"checklist-items", Lists>>, <<"prepend-checklist-items", Lists>>,
     <<"append-checklist-items", Lists>>, <<"list-id", Strs>>, <<"list", Strs>>,
     <<"heading-id", Strs>>, <<"heading", Strs>>, <<"completed", BOOLEAN>>,
     <<"canceled", BOOLEAN>>, <<"reveal", BOOLEAN>>, <<"duplicate", BOOLEAN>>,
     <<"creation-date", Strs>>, <<"completion-date", Strs>> >>

UpdateProjectFields ==
  << <<"auth-token", ToolTokens>>, <<"title", Strs>>, <<"notes", Strs>>,
     <<"prepend-notes", Strs>>, <<"append-notes", Strs>>, <<"when", Strs>>,
     <<"deadline", Strs>>, <<"tags", Lists>>, <<"add-tags", Lists>>, <<"area-id", Strs>>,
     <<"area", Strs>>, <<"completed", BOOLEAN>>, <<"canceled", BOOLEAN>>,
     <<"reveal", BOOLEAN>>, <<"duplicate", BOOLEAN>>, <<"creation-date", Strs>>,
     <<"completion-date", Strs>> >>

ShowFields == << <<"id", Strs>>, <<"query", Strs>>, <<"filter", Lists>> >>
SearchFields == << <<"query", Strs>> >>
JsonFields == << <<"auth-token", ToolTokens>>, <<"reveal", BOOLEAN>> >>
EvaluateFields == << <<"id", Strs>>, <<"url", Strs>> >>

ToolProjects ==
  { [title |-> "P"],
    [title |-> "P", notes |-> "x",
     items |-> << [type |-> "heading", title |-> "A",
                   items |-> << [type |-> "to-do", title |-> "A"] >>],
                  [type |-> "to-do", title |-> ""] >>] }

JsonData == { <<>>, <<"[", "]">> }

\* The layouts of exactly n blocks that supply at most f optional fields.
RECURSIVE LayoutsOfLen(_, _)
LayoutsOfLen(n, f) ==
  IF n = 0 THEN {<<>>}
  ELSE { Append(p[1], p[2]) :
         p \in { q \in LayoutsOfLen(n - 1, f) \X RestructureLayoutItemSchema :
                 TotalSupplied(q[1]) + Supplied(q[2]) <= f } }

\* layout: z.array(...).min(1)
ToolLayouts == UNION { LayoutsOfLen(n, MaxToolFields) : n \in 1..MaxToolLayout }

\* The parameters of each tool, at most MaxSupplied optional fields supplied
\* (the project, the layout and the data are required).
ToolParams ==
  [ tool \in {"add-todo", "add-project", "create-structured-project", "update",
              "update-project", "restructure-project", "show", "search", "version", "json",
              "evaluate"} |->
    CASE tool = "add-todo" -> WithFieldsUpTo({<<>>}, AddTodoFields, MaxSupplied)
      [] tool = "add-project" ->
           WithFieldsUpTo({ [title |-> t] : t \in Strs }, AddProjectFields, 1 + MaxSupplied)
      [] tool = "create-structured-project" ->
           WithFieldsUpTo({ [project |-> p] : p \in ToolProjects }, JsonFields, 1 + MaxSupplied)
      [] tool = "update" ->
           WithFieldsUpTo({ [id |-> i] : i \in ItemIds }, UpdateFields, 1 + MaxSupplied)
      [] tool = "update-project" ->
           WithFieldsUpTo({ [id |-> i] : i \in ItemIds }, UpdateProjectFields, 1 + MaxSupplied)
      [] tool = "restructure-project" ->
           WithOptional({ ("project-id" :> p) @@ [layout |-> l] : p \in ProjectIds, l \in ToolLayouts },
                        "auth-token", ToolTokens)
      [] tool = "show" -> WithFieldsUpTo({<<>>}, ShowFields, MaxSupplied)
      [] tool = "search" -> WithFieldsUpTo({<<>>}, SearchFields, MaxSupplied)
      [] tool = "version" -> {<<>>}
      [] tool = "evaluate" -> WithFieldsUpTo({<<>>}, EvaluateFields, MaxSupplied)
      [] tool = "json" ->
           WithFieldsUpTo({ [data |-> d] : d \in JsonData }, JsonFields, 1 + MaxSupplied) ]

(***************************************************************************)
(* Specification SpecTools: one tool call, from the handler's start to its *)
(* result.                                                                 *)
(***************************************************************************)
\* The fields every call of the tool holds.
RequiredKeys(tool) ==
  CASE tool \in {"update", "update-project"} -> {"id"}
    [] tool = "add-project" -> {"title"}
    [] tool = "create-structured-project" -> {"project"}
    [] tool = "restructure-project" -> {"project-id", "layout"}
    [] tool = "json" -> {"data"}
    [] OTHER -> {}

\* A tool call and the environment of the process: the optional fields
\* supplied and THINGS_AUTH_TOKEN, when set, are at most MaxSupplied in all.
InitTools ==
  /\ \E tool \in DOMAIN ToolParams : \E params \in ToolParams[tool] :
       \E e \in {<<>>} \cup { <<t>> : t \in ToolTokens } :
         /\ Cardinality(DOMAIN params \ RequiredKeys(tool)) + Len(e) <= MaxSupplied
         /\ call = [tool |-> tool, params |-> params]
         /\ env = EnvWith(e)
  /\ pc = "call"
  /\ out = NoOut
  /\ opened = <<>>

(***************************************************************************)
(* openThingsURL: the promise around the child process `open url`.         *)
(***************************************************************************)
ExitCodes == {0, 1}

Pending == [state |-> "pending"]
Resolved == [state |-> "resolved"]
Rejected(message) == [state |-> "rejected", reason |-> message]

\* const child = spawn("open", [url]) inside new Promise((resolve, reject) => ...):
\* the child has emitted nothing and the promise is pending.
Spawned(url) == url @@ [events |-> <<>>, promise |-> Pending]

\* error.message of the error the child emits: `open` is not found, or any
\* other error.
ErrorMessages == {"spawn open ENOENT", "boom"}

CloseEvent(code) == [event |-> "close", code |-> code]
ErrorEvent(message) == [event |-> "error", message |-> message]

OpenFailedPrefix == "Failed to open Things URL: "

\* Mutant of Settle: a later resolve or reject replaces the settlement.
Settle_LastWins(promise, outcome) == outcome

\* resolve() and reject() of a promise: only the first call has an effect.
Settle(promise, outcome) == IF promise.state = "pending" THEN outcome ELSE promise

\* child.on("error", (error) => reject(new Error(...)))
OnError(promise, message) == Settle(promise, Rejected(<<OpenFailedPrefix, message>>))

\* child.on("close", (code) => code === 0 ? resolve() : reject(new Error(...)))
OnClose(promise, code) ==
  Settle(promise,
         IF code = 0 THEN Resolved
         ELSE Rejected(<<OpenFailedPrefix, "process exited with code ", Digits[code + 1]>>))

\* The handler after `await openThingsURL(url)`: a rejection is thrown on, a
\* resolution lets the handler return its success text.
AfterOpen(c, promise) ==
  IF promise.state = "rejected" THEN [threw |-> promise.reason] ELSE SuccessResult(c)

\* Mutant of Start: the URL is opened twice.
Start_OpensTwice(tool, step) ==
  /\ pc = "call"
  /\ call.tool = tool
  /\ IF Has(step, "threw")
     THEN /\ pc' = "failed"
          /\ out' = step
          /\ UNCHANGED opened
     ELSE /\ pc' = "opening"
          /\ opened' = opened \o <<Spawned(step.open), Spawned(step.open)>>
          /\ UNCHANGED out
  /\ UNCHANGED <<call, env>>

\* The synchronous part of a handler: it throws, or it reaches
\* `await openThingsURL(url)`, which spawns `open url`.
Start(tool, step) ==
  /\ pc = "call"
  /\ call.tool = tool
  /\ IF Has(step, "threw")
     THEN /\ pc' = "failed"
          /\ out' = step
          /\ UNCHANGED opened
     ELSE /\ pc' = "opening"
          /\ opened' = Append(opened, Spawned(step.open))
          /\ UNCHANGED out
  /\ UNCHANGED <<call, env>>

AddTodo == Start("add-todo", AddTodoHandler(call.params))
AddProject == Start("add-project", AddProjectHandler(call.params))
CreateStructuredProject ==
  Start("create-structured-project", CreateStructuredProjectHandler(call.params, env))
Update == Start("update", UpdateHandler(call.params, env))
UpdateProject == Start("update-project", UpdateProjectHandler(call.params, env))
RestructureProject == Start("restructure-project", RestructureProjectHandler(call.params, env))
Show == Start("show", ShowHandler(call.params))
Search == Start("search", SearchHandler(call.params))
Version == Start("version", VersionHandler)
Json == Start("json", JsonHandler(call.params, env))

\* evaluate: the request is refused, or the script is run.
Evaluate ==
  /\ pc = "call"
  /\ call.tool = "evaluate"
  /\ LET step == EvaluateHandler(call.params)
     IN IF Has(step, "threw")
        THEN /\ pc' = "failed"
             /\ out' = step
             /\ UNCHANGED opened
        ELSE /\ pc' = "evaluating"
             /\ opened' = Append(opened, step.exec)
             /\ UNCHANGED out
  /\ UNCHANGED <<call, env>>

\* evaluate: the script run has ended; the handler returns, or fails.
EvaluateDone ==
  /\ pc = "evaluating"
  /\ \E outcome \in ScriptOutcomes :
       /\ out' = EvaluateResult(call, outcome)
       /\ pc' = IF Has(EvaluateResult(call, outcome), "threw") THEN "failed" ELSE "returned"
       /\ opened' = [opened EXCEPT ![1] = @ @@ [outcome |-> outcome]]
  /\ UNCHANGED <<call, env>>

\* The child of openThingsURL has been spawned (evaluate has none): it can
\* emit `error` and `close`, each at most once.
ChildOf(tool) == tool # "evaluate" /\ opened # <<>>

Emitted(kind) == \E i \in 1..Len(opened[1].events) : opened[1].events[i].event = kind

\* The `close` listener runs, whether or not the handler is still waiting.
OpenClosed ==
  /\ ChildOf(call.tool)
  /\ ~Emitted("close")
  /\ \E code \in ExitCodes :
       opened' = [opened EXCEPT ![1] = [@ EXCEPT !.events = Append(@, CloseEvent(code)),
                                                 !.promise = OnClose(@, code)]]
  /\ UNCHANGED <<call, env, pc, out>>

\* The `error` listener runs, whether or not the handler is still waiting.
OpenError ==
  /\ ChildOf(call.tool)
  /\ ~Emitted("error")
  /\ \E message \in ErrorMessages :
       opened' = [opened EXCEPT ![1] = [@ EXCEPT !.events = Append(@, ErrorEvent(message)),
                                                 !.promise = OnError(@, message)]]
  /\ UNCHANGED <<call, env, pc, out>>

\* The handler resumes once the promise it awaits is settled.
OpenSettled ==
  /\ pc = "opening"
  /\ opened[1].promise.state # "pending"
  /\ out' = AfterOpen(call, opened[1].promise)
  /\ pc' = IF Has(AfterOpen(call, opened[1].promise), "threw") THEN "failed" ELSE "returned"
  /\ UNCHANGED <<call, env, opened>>

\* The actions that start an external process.
StartsProcess ==
  \/ AddTodo \/ AddProject \/ CreateStructuredProject \/ Update \/ UpdateProject
  \/ RestructureProject \/ Show \/ Search \/ Version \/ Json \/ Evaluate

NextTools ==
  \/ AddTodo \/ AddProject \/ CreateStructuredProject \/ Update \/ UpdateProject
  \/ RestructureProject \/ Show \/ Search \/ Version \/ Json
  \/ Evaluate \/ EvaluateDone
  \/ OpenClosed \/ OpenError \/ OpenSettled

SpecTools == InitTools /\ [][NextTools]_vars

(***************************************************************************)
(* Properties of the tool handlers, checked under SpecTools.               *)
(***************************************************************************)
ToolCalled == pc # "call"
TokenSupplied == Has(call.params, "auth-token") \/ Has(env, "THINGS_AUTH_TOKEN")

\* The update-class calls that get as far as token resolution.
UpdateClassCall ==
  \/ call.tool \in {"update", "update-project"}
  \/ /\ call.tool = "restructure-project"
     /\ Len(buildRestructurePayload(call.params["project-id"], call.params.layout).operations) > 0

\* C7: for update, update-project and restructure-project with a layout that
\* yields at least one operation, when no auth-token parameter is given and
\* THINGS_AUTH_TOKEN is not set, the call fails with the "Things auth token is
\* required" error and no external process is started at any point of the call.
C7_MissingTokenFails ==
  (UpdateClassCall /\ ~TokenSupplied) =>
    /\ opened = <<>>
    /\ pc \in {"call", "failed"}
    /\ ToolCalled => out = [threw |-> AuthTokenRequired]

\* A restructure-project call with operations to send and no token has failed.
C7_Witness ==
  /\ call.tool = "restructure-project"
  /\ UpdateClassCall
  /\ ~TokenSupplied
  /\ pc = "failed"
  /\ out = [threw |-> AuthTokenRequired]
  /\ opened = <<>>

\* C9: for create-structured-project and json, whenever THINGS_AUTH_TOKEN is
\* set to a non-empty value and the auth-token parameter is absent or an empty
\* string, the opened URL carries an auth-token parameter equal to the
\* environment value.
C9_EnvTokenUsed ==
  ( /\ call.tool \in {"create-structured-project", "json"}
    /\ Has(env, "THINGS_AUTH_TOKEN")
    /\ env.THINGS_AUTH_TOKEN # <<>>
    /\ ~Has(call.params, "auth-token") \/ call.params["auth-token"] = <<>>
    /\ opened # <<>> ) =>
    /\ "auth-token" \in ParamKeys(opened[1].params)
    /\ ParamValue(opened[1].params, "auth-token") = env.THINGS_AUTH_TOKEN

\* The optional input fields, other than auth-token, of the tools whose
\* handler builds a query string field by field.
OptionalKeys ==
  [ tool \in {"add-todo", "add-project", "update", "update-project", "show", "search"} |->
    LET fields == CASE tool = "add-todo" -> AddTodoFields
                    [] tool = "add-project" -> AddProjectFields
                    [] tool = "update" -> UpdateFields
                    [] tool = "update-project" -> UpdateProjectFields
                    [] tool = "show" -> ShowFields
                    [] tool = "search" -> SearchFields
    IN { fields[i][1] : i \in 1..Len(fields) } \ {"auth-token"} ]

\* C10: for add-todo, add-project, update, update-project, show and search,
\* every optional input field other than auth-token that is absent from the
\* input is absent from the parameter set of the opened URL.
C10_AbsentFieldsOmitted ==
  (call.tool \in DOMAIN OptionalKeys /\ opened # <<>>) =>
    \A key \in OptionalKeys[call.tool] :
      ~Has(call.params, key) => key \notin ParamKeys(opened[1].params)

\* An add-todo call that supplies a title and a tag list, and no notes, has
\* opened a URL that carries the two and not notes.
C10_Witness ==
  /\ call.tool = "add-todo"
  /\ opened # <<>>
  /\ DOMAIN call.params = {"title", "tags"}
  /\ ParamKeys(opened[1].params) = {"title", "tags"}

(***************************************************************************)
(* The query string built field by field: empty values, booleans, arrays.  *)
(***************************************************************************)
\* The handler has just called openThingsURL(url): the child is spawned and has
\* emitted nothing.  The URL of a child is that of its spawn for good (UrlKept).
JustOpened == opened # <<>> /\ pc = "opening" /\ opened[1].events = <<>>
QueryToolOpened == call.tool \in DOMAIN OptionalKeys /\ JustOpened
ToolOpened == call.tool \in DOMAIN ToolParams \ {"evaluate"} /\ JustOpened

\* No step changes the URL of a child that is spawned.
UrlKept ==
  [][opened # <<>> =>
       /\ Len(opened') = Len(opened)
       /\ call.tool # "evaluate" =>
            /\ opened'[1].base = opened[1].base
            /\ opened'[1].params = opened[1].params
            /\ opened'[1].query = opened[1].query]_vars
OpenedParams == opened[1].params

\* C11: no URL built by add-todo, add-project, update, update-project, show
\* or search contains an optional parameter whose value is the empty string:
\* an optional field supplied as an empty string or as an empty array is
\* omitted, like an absent one.
C11_NoEmptyValues ==
  QueryToolOpened =>
    \A i \in 1..Len(OpenedParams) :
      OpenedParams[i][1] \in OptionalKeys[call.tool] => OpenedParams[i][2] # <<>>

BooleanKeys == {"completed", "canceled", "reveal", "duplicate", "show-quick-entry"}

\* C12: in every tool handler, a boolean field (completed, canceled, reveal,
\* duplicate, show-quick-entry) that is supplied appears in the URL with the
\* value "true" or "false" matching the input, and is omitted only when the
\* field is absent.
C12_BooleansStringified ==
  ToolOpened =>
    \A key \in BooleanKeys :
      IF Has(call.params, key)
      THEN /\ key \in ParamKeys(OpenedParams)
           /\ ParamValue(OpenedParams, key) =
                IF call.params[key] THEN <<"t", "r", "u", "e">> ELSE <<"f", "a", "l", "s", "e">>
      ELSE key \notin ParamKeys(OpenedParams)

\* An add-todo call that supplies completed = FALSE and show-quick-entry =
\* TRUE has opened a URL with completed=false and show-quick-entry=true.
C12_Witness ==
  /\ call.tool = "add-todo"
  /\ opened # <<>>
  /\ Has(call.params, "completed") /\ ~call.params.completed
  /\ Has(call.params, "show-quick-entry") /\ call.params["show-quick-entry"]
  /\ OpenedParams = << <<"completed", <<"f", "a", "l", "s", "e">>>>,
                       <<"show-quick-entry", <<"t", "r", "u", "e">>>> >>

CommaKeys == {"tags", "add-tags", "filter"}
NewlineKeys == {"checklist-items", "prepend-checklist-items", "append-checklist-items", "to-dos"}

\* Where element i of `list` starts in the joined value (0-based).
ElementStart(list, i) == SeqSum([j \in 1..(i - 1) |-> Len(list[j]) + 1])

\* `value` is the elements of `list` in order, one `sep` between neighbours.
Serializes(value, list, sep) ==
  /\ Len(value) = SeqSum([j \in 1..Len(list) |-> Len(list[j])])
                  + (IF list = <<>> THEN 0 ELSE Len(list) - 1)
  /\ \A i \in 1..Len(list) :
       /\ SubSeq(value, ElementStart(list, i) + 1, ElementStart(list, i) + Len(list[i])) = list[i]
       /\ i < Len(list) => value[ElementStart(list, i) + Len(list[i]) + 1] = sep

\* C13: array fields are serialized in input order with a fixed separator:
\* tags, add-tags and filter with ",", checklist-items, prepend-checklist-items,
\* append-checklist-items and to-dos with a newline; the value depends on the
\* array alone.
C13_ArraysJoined ==
  ToolOpened =>
    \A i \in 1..Len(OpenedParams) :
      LET key == OpenedParams[i][1] IN
        /\ key \in CommaKeys => Serializes(OpenedParams[i][2], call.params[key], ",")
        /\ key \in NewlineKeys => Serializes(OpenedParams[i][2], call.params[key], "\n")

\* An add-project call with a two-element tags list and a two-element to-dos
\* list has opened a URL carrying both, joined.
C13_Witness ==
  /\ call.tool = "add-project"
  /\ opened # <<>>
  /\ Has(call.params, "tags") /\ call.params.tags = << <<"a">>, <<"b", "c">> >>
  /\ Has(call.params, "to-dos") /\ call.params["to-dos"] = << <<"a">>, <<"b", "c">> >>
  /\ ParamValue(OpenedParams, "tags") = <<"a", ",", "b", "c">>
  /\ ParamValue(OpenedParams, "to-dos") = <<"a", "\n", "b", "c">>

(***************************************************************************)
(* Reading a query string back: the application/x-www-form-urlencoded      *)
(* parser (new URLSearchParams(query)), the inverse the round trip is      *)
(* stated against.                                                         *)
(***************************************************************************)
\* String.prototype.split(sep): the pieces of `text` between occurrences of sep.
RECURSIVE Split(_, _)
Split(text, sep) ==
  IF \E i \in 1..Len(text) : text[i] = sep
  THEN LET first == CHOOSE i \in 1..Len(text) :
                      text[i] = sep /\ \A j \in 1..(i - 1) : text[j] # sep
       IN <<SubSeq(text, 1, first - 1)>> \o Split(SubSeq(text, first + 1, Len(text)), sep)
  ELSE <<text>>

\* The character a percent escape stands for.
Unescapes ==
  [ code \in { Tail(Escapes[c]) : c \in DOMAIN Escapes } |->
      CHOOSE c \in DOMAIN Escapes : Tail(Escapes[c]) = code ]

\* An escape starts at i: "%" and the two hex digits of a byte.  The digits
\* of an escape are never "%", so no escape starts inside another.
EscapeAt(text, i) ==
  /\ i >= 1
  /\ i + 2 <= Len(text)
  /\ text[i] = "%"
  /\ SubSeq(text, i + 1, i + 2) \in DOMAIN Unescapes

\* "+" is a space, %XX is the character of that byte, the rest is itself.
Decode(text) ==
  Flat([i \in 1..Len(text) |->
          IF EscapeAt(text, i) THEN <<Unescapes[SubSeq(text, i + 1, i + 2)]>>
          ELSE IF EscapeAt(text, i - 1) \/ EscapeAt(text, i - 2) THEN <<>>
          ELSE IF text[i] = "+" THEN <<" ">>
          ELSE <<text[i]>>])

\* One name=value piece: name and value part at the first "=".
ParsePair(piece) ==
  IF \E i \in 1..Len(piece) : piece[i] = "="
  THEN LET eq == CHOOSE i \in 1..Len(piece) :
                   piece[i] = "=" /\ \A j \in 1..(i - 1) : piece[j] # "="
       IN << Decode(SubSeq(piece, 1, eq - 1)), Decode(SubSeq(piece, eq + 1, Len(piece))) >>
  ELSE << Decode(piece), <<>> >>

\* The <<name, value>> pairs of a query string, in order.
ParseQuery(query) ==
  LET nonEmpty(piece) == piece # <<>>
      pieces == SelectSeq(Split(query, "&"), nonEmpty)
  IN [i \in 1..Len(pieces) |-> ParsePair(pieces[i])]

OpenedQuery == opened[1].query

\* C14: for every parameter set a handler builds, percent-encoding it into
\* the URL query string and decoding that query string yields the same keys,
\* in the same order, with the same string values.
C14_QueryRoundTrip ==
  ToolOpened =>
    ParseQuery(OpenedQuery) =
      [i \in 1..Len(OpenedParams) |-> << <<OpenedParams[i][1]>>, OpenedParams[i][2] >>]

\* An add-todo call whose title is the string of special characters and
\* whose notes are "a" has opened a URL whose query string is not the plain
\* text of the two and reads back as the two.
C14_Witness ==
  /\ call.tool = "add-todo"
  /\ opened # <<>>
  /\ OpenedParams = << <<"title", Special>>, <<"notes", <<"a">>>> >>
  /\ OpenedQuery # <<"title", "=">> \o Special \o <<"&", "notes", "=", "a">>
  /\ ParseQuery(OpenedQuery) = << << <<"title">>, Special >>, << <<"notes">>, <<"a">> >> >>

ListSeparator ==
  ( "tags" :> "," ) @@ ( "add-tags" :> "," ) @@ ( "filter" :> "," )
  @@ ( "checklist-items" :> "\n" ) @@ ( "to-dos" :> "\n" )

\* The decoded value of parameter `key` of the opened URL.
DecodedValue(key) ==
  LET pairs == ParseQuery(OpenedQuery)
  IN pairs[CHOOSE i \in 1..Len(pairs) : pairs[i][1] = <<key>>][2]

\* C15: for every list of strings supplied as tags, add-tags or filter
\* (joined with ",") or as checklist-items or to-dos (joined with a newline),
\* decoding the URL parameter and splitting it on the separator yields the
\* same ordered list as the input.
C15_ListRoundTrip ==
  ToolOpened =>
    \A key \in DOMAIN ListSeparator :
      (Has(call.params, key) /\ key \in ParamKeys(OpenedParams)) =>
        Split(DecodedValue(key), ListSeparator[key]) = call.params[key]

RawCount(text, c) == Cardinality({ i \in 1..Len(text) : text[i] = c })

\* C16: in the query string of every URL a handler builds, no character of a
\* parameter value appears raw when it is a double quote, semicolon, "#",
\* "/", "&", "=", space or newline: the only "=" are the one after each
\* name and the only "&" those between parameters, a space is written "+".
C16_NoRawSpecials ==
  ToolOpened =>
    /\ \A i \in 1..Len(OpenedQuery) : OpenedQuery[i] \notin {"\"", ";", "#", "/", " ", "\n"}
    /\ RawCount(OpenedQuery, "=") = Len(OpenedParams)
    /\ RawCount(OpenedQuery, "&") = IF OpenedParams = <<>> THEN 0 ELSE Len(OpenedParams) - 1
    /\ \A i \in 1..Len(OpenedParams) :
         RawCount(OpenedQuery, "+") >= RawCount(OpenedParams[i][2], " ")

\* An update call whose notes are the string of special characters has
\* opened a URL whose notes are written with escapes only.
C16_Witness ==
  /\ call.tool = "update"
  /\ opened # <<>>
  /\ Has(call.params, "notes") /\ call.params.notes = Special
  /\ OpenedParams[Len(OpenedParams)] = <<"notes", Special>>
  /\ SubSeq(OpenedQuery, Len(OpenedQuery) - 28, Len(OpenedQuery)) =
       << "=", "%", "2", "2", "%", "3", "B", "%", "2", "3", "%", "2", "F", "%", "2", "6",
          "%", "3", "D", "+", "%", "0", "A", "%", "2", "B", "%", "2", "5" >>

(***************************************************************************)
(* External calls and results of a tool invocation.                        *)
(***************************************************************************)
\* C17: every tool invocation starts at most one external process (one open
\* of a things URL, or for evaluate one script run), on every path, and then
\* returns or fails without starting another.
C17_AtMostOneExternalCall ==
  /\ Len(opened) <= 1
  /\ pc = "call" => opened = <<>>
  /\ pc \in {"opening", "evaluating"} => Len(opened) = 1
  /\ (pc \in {"returned", "failed"} /\ opened # <<>>) => ~ENABLED StartsProcess

\* A restructure-project call has opened its one URL and returned.
C17_Witness ==
  /\ call.tool = "restructure-project"
  /\ pc = "returned"
  /\ Len(opened) = 1
  /\ opened[1].base = "things:///json?"

\* C18: every tool, whenever it returns successfully, returns a result whose
\* content is a list holding exactly one item of type "text" with a text.
C18_TextContent ==
  pc = "returned" =>
    /\ Len(out.content) = 1
    /\ out.content[1].type = "text"
    /\ Has(out.content[1], "text")

\* C19: the evaluate tool accepts a request only when exactly one of id and
\* url is a non-empty string: when both are given or neither is, it fails with
\* "Provide either id or url, but not both" and the script is never run.
C19_EvaluateEitherIdOrUrl ==
  call.tool = "evaluate" =>
    LET hasId == Has(call.params, "id") /\ call.params.id # <<>>
        hasUrl == Has(call.params, "url") /\ call.params.url # <<>>
    IN /\ opened # <<>> => (hasId /\ ~hasUrl) \/ (hasUrl /\ ~hasId)
       /\ (hasId = hasUrl) =>
            /\ opened = <<>>
            /\ pc \in {"call", "failed"}
            /\ pc = "failed" => out = [threw |-> ProvideEither]

\* An evaluate call with both an id and a url has failed without a script run.
C19_Witness ==
  /\ call.tool = "evaluate"
  /\ Has(call.params, "id") /\ call.params.id = <<"a">>
  /\ Has(call.params, "url") /\ call.params.url = <<"a">>
  /\ pc = "failed"
  /\ out = [threw |-> ProvideEither]
  /\ opened = <<>>

(***************************************************************************)
(* Specification SpecStartup: the start of the process, from the command   *)
(* line to the connection of the transport.                                *)
(***************************************************************************)
ArgValues == {"--version", "-v", "--help", "-h", "--verbose"}

\* Mutant of ArgsInclude: only the first argument is looked at.
ArgsInclude_FirstOnly(args, flag) == args # <<>> /\ args[1] = flag

\* args.includes(flag)
ArgsInclude(args, flag) == \E i \in 1..Len(args) : args[i] = flag

NotStarted == [printed |-> <<>>, errors |-> <<>>, checked |-> <<>>, exit |-> <<>>, connected |-> FALSE]

RECURSIVE StartupCallFrom(_, _)
StartupCallFrom(args, n) ==
  \/ \E script \in BOOLEAN, binary \in BOOLEAN :
       call = [fn |-> "main", args |-> args, scriptExists |-> script, binaryExists |-> binary]
  \/ /\ n > 0
     /\ \E a \in ArgValues : StartupCallFrom(Append(args, a), n - 1)

InitStartup ==
  /\ StartupCallFrom(<<>>, MaxArgs)
  /\ env = NoEnv
  /\ pc = "version"
  /\ out = NotStarted
  /\ opened = <<>>

\* if (args.includes("--version") || args.includes("-v")) { ...; process.exit(0); }
HandleVersion ==
  /\ pc = "version"
  /\ IF ArgsInclude(call.args, "--version") \/ ArgsInclude(call.args, "-v")
     THEN /\ out' = [out EXCEPT !.printed = Append(@, "0.1.0"), !.exit = <<0>>]
          /\ pc' = "exited"
     ELSE /\ pc' = "help"
          /\ UNCHANGED out
  /\ UNCHANGED <<call, env, opened>>

\* if (args.includes("--help") || args.includes("-h")) { ...; process.exit(0); }
HandleHelp ==
  /\ pc = "help"
  /\ IF ArgsInclude(call.args, "--help") \/ ArgsInclude(call.args, "-h")
     THEN /\ out' = [out EXCEPT !.printed = Append(@, "Things MCP Server v0.1.0 ..."), !.exit = <<0>>]
          /\ pc' = "exited"
     ELSE /\ pc' = "script"
          /\ UNCHANGED out
  /\ UNCHANGED <<call, env, opened>>

\* if (!existsSync(evaluateScriptPath)) { console.error(...); process.exit(1); }
ValidateScript ==
  /\ pc = "script"
  /\ IF ~call.scriptExists
     THEN /\ out' = [out EXCEPT !.checked = Append(@, "evaluateScriptPath"),
                                !.errors = Append(@, "ERROR: JXA script not found"),
                                !.exit = <<1>>]
          /\ pc' = "exited"
     ELSE /\ out' = [out EXCEPT !.checked = Append(@, "evaluateScriptPath")]
          /\ pc' = "binary"
  /\ UNCHANGED <<call, env, opened>>

\* if (!existsSync(evaluateBinary)) { console.error(...); process.exit(1); }
ValidateBinary ==
  /\ pc = "binary"
  /\ IF ~call.binaryExists
     THEN /\ out' = [out EXCEPT !.checked = Append(@, "evaluateBinary"),
                                !.errors = Append(@, "ERROR: osascript binary not found"),
                                !.exit = <<1>>]
          /\ pc' = "exited"
     ELSE /\ out' = [out EXCEPT !.checked = Append(@, "evaluateBinary")]
          /\ pc' = "connect"
  /\ UNCHANGED <<call, env, opened>>

\* await server.connect(transport)
Connect ==
  /\ pc = "connect"
  /\ out' = [out EXCEPT !.connected = TRUE]
  /\ pc' = "serving"
  /\ UNCHANGED <<call, env, opened>>

NextStartup == HandleVersion \/ HandleHelp \/ ValidateScript \/ ValidateBinary \/ Connect

SpecStartup == InitStartup /\ [][NextStartup]_vars

InformationFlags == {"--version", "-v", "--help", "-h"}
AskedInformation == \E i \in 1..Len(call.args) : call.args[i] \in InformationFlags

\* C20: with --version/-v or --help/-h the process prints and exits with
\* code 0 without checking for the script or the osascript binary and without
\* connecting the transport; otherwise, if the script or the binary is
\* missing, it exits with code 1 before the transport is connected; the
\* server connects only when both exist.
C20_StartupOrdering ==
  /\ AskedInformation =>
       /\ out.checked = <<>>
       /\ ~out.connected
       /\ pc \in {"version", "help", "exited"}
       /\ pc = "exited" => out.exit = <<0>> /\ Len(out.printed) = 1
  /\ (~AskedInformation /\ ~(call.scriptExists /\ call.binaryExists)) =>
       /\ ~out.connected
       /\ pc \in {"version", "help", "script", "binary", "exited"}
       /\ pc = "exited" => out.exit = <<1>> /\ out.printed = <<>>
  /\ out.connected =>
       /\ ~AskedInformation /\ call.scriptExists /\ call.binaryExists
       /\ out.exit = <<>>
       /\ out.checked = <<"evaluateScriptPath", "evaluateBinary">>
  /\ out.exit # <<>> => ~ENABLED NextStartup

\* Started with an unknown argument followed by -h, and neither the script
\* nor the binary in place, the process has printed the help and exited 0.
C20_Witness ==
  /\ call.args = <<"--verbose", "-h">>
  /\ ~call.scriptExists /\ ~call.binaryExists
  /\ pc = "exited"
  /\ out.exit = <<0>>
  /\ out.checked = <<>>

(***************************************************************************)
(* The command each tool opens.                                            *)
(***************************************************************************)
\* The text before the query string in the template literal of each handler.
CommandOf ==
  [ tool \in DOMAIN ToolParams \ {"evaluate"} |->
    CASE tool = "add-todo" -> "things:///add?"
      [] tool = "add-project" -> "things:///add-project?"
      [] tool = "update" -> "things:///update?"
      [] tool = "update-project" -> "things:///update-project?"
      [] tool = "show" -> "things:///show?"
      [] tool = "search" -> "things:///search?"
      [] tool = "version" -> "things:///version"
      [] tool \in {"json", "create-structured-project", "restructure-project"} ->
           "things:///json?" ]

JsonCommandTools == {"json", "create-structured-project", "restructure-project"}

\* C21: each tool opens a URL of its own fixed command: add-todo things:///add?,
\* add-project things:///add-project?, update things:///update?, update-project
\* things:///update-project?, show things:///show?, search things:///search?,
\* version things:///version with no query, and json, create-structured-project
\* and restructure-project things:///json? with a `data` parameter always
\* present, in the parameter set and in the query text.
C21_FixedCommand ==
  ToolOpened =>
    /\ Len(opened) = 1
    /\ opened[1].base = CommandOf[call.tool]
    /\ call.tool = "version" => opened[1].query = <<>>
    /\ call.tool \in JsonCommandTools =>
         /\ Cardinality({ i \in 1..Len(OpenedParams) : OpenedParams[i][1] = "data" }) = 1
         /\ \E i \in 1..Len(OpenedQuery) - 1 :
              /\ OpenedQuery[i] = "data" /\ OpenedQuery[i + 1] = "="
              /\ i = 1 \/ OpenedQuery[i - 1] = "&"

\* A json call whose data is the empty string has opened things:///json? with
\* the query "data=".
C21_Witness ==
  /\ call.tool = "json"
  /\ call.params.data = <<>>
  /\ opened # <<>>
  /\ opened[1].base = "things:///json?"
  /\ OpenedQuery = <<"data", "=">>

(***************************************************************************)
(* The to-do moves of buildRestructurePayload (SpecRestructure).           *)
(***************************************************************************)
\* The to-do entries of the result, in the order of the result.
TodoEntries == SelectSeq(out.operations, IsTodoEntry)

\* The items of a block, when it lists any.
BlockItems(b) == IF Has(b, "items") THEN b.items ELSE <<>>

\* The item ids the claim has moved: those of the unsectioned blocks and of the
\* heading blocks whose operation is not delete, in layout order.
ClaimedMovedItems(layout) ==
  Flatten([i \in 1..Len(layout) |->
             IF layout[i].type = "unsectioned" \/ HeadingOperation(layout[i]) # "delete"
             THEN BlockItems(layout[i]) ELSE <<>>])

\* C22: for any layout, every item id listed in an unsectioned block or in a
\* heading block whose operation is not delete gets exactly one `move`
\* operation, and items listed under a deleted heading get none; the index
\* attributes of all move operations are 0,1,...,n-1 in layout order, the
\* counter being shared across blocks and never reset at a heading.
C22_EveryListedItemMoved ==
  RestructureDone =>
    LET ids == ClaimedMovedItems(call.layout)
    IN /\ Len(TodoEntries) = Len(ids)
       /\ \A i \in 1..Len(TodoEntries) :
            /\ TodoEntries[i].operation = "move"
            /\ TodoEntries[i].id = ids[i]
            /\ TodoEntries[i].attributes.index = i - 1

\* What buildRestructurePayload returns for the first k blocks of a layout.
BuiltUpTo(projectId, layout, k) == buildRestructurePayload(projectId, SubSeq(layout, 1, k))

\* The entries of one kind that block k of the layout adds to the result: those
\* the first k blocks yield beyond those the first k-1 blocks yield.
EntriesOfBlock(projectId, layout, k, Kind(_)) ==
  LET before == SelectSeq(BuiltUpTo(projectId, layout, k - 1).operations, Kind)
      upTo == SelectSeq(BuiltUpTo(projectId, layout, k).operations, Kind)
  IN SubSeq(upTo, Len(before) + 1, Len(upTo))

MovesOfBlock(projectId, layout, k) == EntriesOfBlock(projectId, layout, k, IsTodoEntry)
HeadingsOfBlock(projectId, layout, k) == EntriesOfBlock(projectId, layout, k, IsHeadingEntry)

\* C23: every to-do move generated from a heading block has `list-id` equal to
\* the project id and `heading-id` equal to the id of the heading operation
\* emitted for that same block (a generated id, none of the input, when the
\* block has no id); every move generated from an unsectioned block has
\* `list-id` equal to the project id and no `heading-id` key.
C23_MovesTargetTheirBlock ==
  RestructureDone =>
    LET p == call.projectId
        layout == call.layout
    IN /\ TodoEntries = Flatten([k \in 1..Len(layout) |-> MovesOfBlock(p, layout, k)])
       /\ \A k \in 1..Len(layout) :
            LET moves == MovesOfBlock(p, layout, k)
                headings == HeadingsOfBlock(p, layout, k)
            IN \A i \in 1..Len(moves) :
                 /\ moves[i].attributes["list-id"] = p
                 /\ IF layout[k].type = "heading"
                    THEN /\ Len(headings) = 1
                         /\ Has(moves[i].attributes, "heading-id")
                         /\ moves[i].attributes["heading-id"] = headings[1].id
                         /\ ~Has(layout[k], "id") => headings[1].id \notin HeadingIds
                    ELSE ~Has(moves[i].attributes, "heading-id")

\* An unsectioned block with an item followed by a new heading with an item:
\* the first move has no heading-id, the second has the generated id of the
\* heading created.
C23_Witness ==
  /\ RestructureDone
  /\ Len(call.layout) = 2
  /\ call.layout[1].type = "unsectioned" /\ HasItems(call.layout[1])
  /\ call.layout[2].type = "heading" /\ ~Has(call.layout[2], "id") /\ HasItems(call.layout[2])
  /\ Len(TodoEntries) >= 2
  /\ ~Has(TodoEntries[1].attributes, "heading-id")
  /\ TodoEntries[Len(TodoEntries)].attributes["heading-id"] = out.operations[1].id
  /\ out.operations[1].operation = "create"

\* The heading blocks before block k whose operation is not delete.
LiveHeadingsBefore(layout, k) ==
  { j \in 1..(k - 1) : layout[j].type = "heading" /\ HeadingOperation(layout[j]) # "delete" }

\* C24: a heading block that is not deleted and gives no explicit index is
\* emitted with an index equal to the number of non-deleted heading blocks
\* that precede it in the layout: deleted headings and unsectioned blocks do
\* not advance the counter, while a heading with an explicit index is emitted
\* with its own index and still advances the counter by one.
C24_HeadingIndexCountsLiveHeadings ==
  RestructureDone =>
    LET p == call.projectId
        layout == call.layout
    IN \A k \in 1..Len(layout) :
         (layout[k].type = "heading" /\ HeadingOperation(layout[k]) # "delete") =>
           LET headings == HeadingsOfBlock(p, layout, k)
           IN /\ Len(headings) = 1
              /\ headings[1].attributes.index =
                   IF Has(layout[k], "index") THEN layout[k].index
                   ELSE Cardinality(LiveHeadingsBefore(layout, k))

\* A heading with the explicit index 2 followed by a heading without one: the
\* two are emitted with the indexes 2 and 1.
C24_Witness ==
  /\ RestructureDone
  /\ Len(call.layout) = 2
  /\ call.layout[1].type = "heading" /\ Has(call.layout[1], "index") /\ call.layout[1].index = 2
  /\ call.layout[2].type = "heading" /\ ~Has(call.layout[2], "index")
  /\ Len(out.operations) >= 2
  /\ out.operations[1].attributes.index = 2
  /\ IsLiveHeadingEntry(out.operations[2])
  /\ out.operations[2].attributes.index = 1

IsCreateEntry(e) == e.type = "heading" /\ e.operation = "create"

\* C25: the createdHeadings list reported by restructure-project as "New
\* headings" contains exactly the headings whose emitted operation is
\* `create`: one entry per create operation, in order, with that operation's
\* id, and no entry for a heading emitted with operation update, move or
\* delete.
C25_CreatedHeadingsAreCreates ==
  RestructureDone =>
    LET creates == SelectSeq(out.operations, IsCreateEntry)
    IN /\ Len(out.createdHeadings) = Len(creates)
       /\ \A i \in 1..Len(creates) : out.createdHeadings[i].id = creates[i].id

(***************************************************************************)
(* restructure-project with nothing to send (SpecTools).                   *)
(***************************************************************************)
\* A block that names nothing to do: an unsectioned block without items or a
\* delete heading without an id.
IdleBlock(b) ==
  IF b.type = "unsectioned" THEN ~HasItems(b)
  ELSE Has(b, "operation") /\ b.operation = "delete" /\ ~Has(b, "id")

RestructureCall == call.tool = "restructure-project"

YieldsNoOperations ==
  Len(buildRestructurePayload(call.params["project-id"], call.params.layout).operations) = 0

\* C26: restructure-project with a layout of only unsectioned blocks without
\* items and delete headings without an id yields no operations, and a call
\* whose layout yields no operations fails with the "No operations generated
\* from layout" error; the check happens before the auth token is resolved and
\* before any external call, so the error is the same whether or not a token
\* is available.
C26_NoOperationsFailsFirst ==
  RestructureCall =>
    /\ (\A k \in 1..Len(call.params.layout) : IdleBlock(call.params.layout[k]))
          => YieldsNoOperations
    /\ YieldsNoOperations =>
          /\ opened = <<>>
          /\ pc \in {"call", "failed"}
          /\ ToolCalled => out = [threw |-> NoOperations]

\* A restructure-project call with a delete heading without an id, made with
\* no token at all, has failed with the no-operations error.
C26_Witness ==
  /\ RestructureCall
  /\ Len(call.params.layout) = 1
  /\ call.params.layout[1].type = "heading"
  /\ IdleBlock(call.params.layout[1])
  /\ ~TokenSupplied
  /\ pc = "failed"
  /\ out = [threw |-> NoOperations]
  /\ opened = <<>>

\* The same error with a token in the environment.
C26_WitnessWithToken ==
  /\ RestructureCall
  /\ YieldsNoOperations
  /\ TokenSupplied
  /\ pc = "failed"
  /\ out = [threw |-> NoOperations]

(***************************************************************************)
(* openThingsURL under the events of its child (SpecTools): `error` and    *)
(* `close` come each at most once and in any order, before or after the    *)
(* handler resumes.                                                        *)
(***************************************************************************)
\* C27: openThingsURL settles exactly once under any order of the child's
\* `error` and `close` events: it is pending until the first event, resolved if
\* the first event is `close` with exit code 0, and rejected with a message
\* that begins "Failed to open Things URL" if the first event is `error` or
\* `close` with a non-zero code; later events do not change the outcome, and a
\* tool returns its success text only after openThingsURL has resolved, and
\* fails with the rejection message after it has rejected.
C27_SettlesOnce ==
  ChildOf(call.tool) =>
    LET events == opened[1].events
        promise == opened[1].promise
    IN /\ Len(opened) = 1
       /\ pc \in {"opening", "returned", "failed"}
       /\ events = <<>> => (promise = Pending /\ pc = "opening")
       /\ events # <<>> =>
            IF events[1] = CloseEvent(0)
            THEN promise = Resolved
            ELSE /\ promise.state = "rejected"
                 /\ promise.reason[1] = OpenFailedPrefix
                 /\ promise.reason =
                      IF events[1].event = "close"
                      THEN <<OpenFailedPrefix, "process exited with code ",
                             Digits[events[1].code + 1]>>
                      ELSE <<OpenFailedPrefix, events[1].message>>
       /\ pc = "returned" => (promise = Resolved /\ out = SuccessResult(call))
       /\ pc = "failed" => (promise.state = "rejected" /\ out = [threw |-> promise.reason])

\* The child of an add-todo call has emitted `error` and then `close` with
\* code 0: the call has failed with the message of the first event.
C27_Witness ==
  /\ call.tool = "add-todo"
  /\ opened # <<>>
  /\ opened[1].events = <<ErrorEvent("spawn open ENOENT"), CloseEvent(0)>>
  /\ pc = "failed"
  /\ out = [threw |-> <<OpenFailedPrefix, "spawn open ENOENT">>]

\* The child of a call that has returned its success text emits `error`
\* afterwards: the result stays.
C27_WitnessLateError ==
  /\ ChildOf(call.tool)
  /\ opened[1].events = <<CloseEvent(0), ErrorEvent("boom")>>
  /\ pc = "returned"
  /\ out = SuccessResult(call)

(***************************************************************************)
(* The payload of buildStructuredProjectPayload, entry by entry            *)
(* (SpecProject).                                                          *)
(***************************************************************************)
\* Entry and input item have the same type and title.
SameTypeAndTitle(entry, item) ==
  entry.type = item.type /\ entry.attributes.title = item.title

\* C28: buildStructuredProjectPayload returns a list of exactly one entry, of
\* type `project`, whose items correspond one-to-one and in the same order to
\* the input items (entry i has the type and title of input item i), each
\* heading entry holding its to-dos in input order; the `items` key is absent
\* when the project, or a heading, has no items.
C28_OneProjectEntry ==
  ProjectDone =>
    LET payload == out.payload
        project == call.project
    IN /\ Len(payload) = 1
       /\ payload[1].type = "project"
       /\ payload[1].attributes.title = project.title
       /\ IF ~HasItems(project) THEN ~Has(payload[1], "items")
          ELSE /\ Has(payload[1], "items")
               /\ Len(payload[1].items) = Len(project.items)
               /\ \A i \in 1..Len(project.items) :
                    LET entry == payload[1].items[i]
                        item == project.items[i]
                    IN /\ SameTypeAndTitle(entry, item)
                       /\ item.type = "heading" =>
                            IF ~HasItems(item) THEN ~Has(entry, "items")
                            ELSE /\ Has(entry, "items")
                                 /\ Len(entry.items) = Len(item.items)
                                 /\ \A k \in 1..Len(item.items) :
                                      /\ entry.items[k].type = "to-do"
                                      /\ SameTypeAndTitle(entry.items[k], item.items[k])

\* A project of a heading given with an empty list of to-dos, followed by a
\* to-do: one project entry of two items, the heading entry without `items`.
C28_Witness ==
  /\ ProjectDone
  /\ Len(InputItems) = 2
  /\ InputItems[1].type = "heading"
  /\ Has(InputItems[1], "items") /\ InputItems[1].items = <<>>
  /\ InputItems[2].type = "to-do"
  /\ InputItems[1].title # InputItems[2].title
  /\ Len(out.payload) = 1
  /\ Len(out.payload[1].items) = 2
  /\ ~Has(out.payload[1].items[1], "items")
  /\ out.payload[1].items[2].type = "to-do"

\* The input fields by the way the claim has them kept.
TextKeys == {"notes", "when", "deadline", "area", "area-id", "heading-id", "list-id"}
ArrayKeys == {"tags"}
KeptWheneverSupplied == {"canceled", "completed", "index"}

\* The attribute keys the claim gives the entry of an input.
ClaimedAttributeKeys(input) ==
  {"title"}
  \cup { k \in TextKeys \cap DOMAIN input : input[k] # "" }
  \cup { k \in ArrayKeys \cap DOMAIN input : input[k] # <<>> }
  \cup (KeptWheneverSupplied \cap DOMAIN input)

\* The attributes of an entry are the claimed keys, with the input's values.
AttributesAsClaimed(entry, input) ==
  /\ DOMAIN entry.attributes = ClaimedAttributeKeys(input)
  /\ \A k \in DOMAIN entry.attributes : entry.attributes[k] = input[k]

\* The checklist of a to-do entry: no `items` for no or an empty checklist,
\* else one entry per item, with `completed` exactly when the item gives it.
ChecklistAsClaimed(entry, todo) ==
  IF ~Has(todo, "checklistItems") \/ todo.checklistItems = <<>>
  THEN ~Has(entry, "items")
  ELSE /\ Has(entry, "items")
       /\ Len(entry.items) = Len(todo.checklistItems)
       /\ \A k \in 1..Len(entry.items) :
            LET given == todo.checklistItems[k]
                built == entry.items[k]
            IN /\ built.type = "checklist-item"
               /\ built.attributes.title = given.title
               /\ DOMAIN built.attributes =
                    {"title"} \cup (IF Has(given, "completed") THEN {"completed"} ELSE {})
               /\ Has(given, "completed") => built.attributes.completed = given.completed

TodoAsClaimed(entry, todo) ==
  AttributesAsClaimed(entry, todo) /\ ChecklistAsClaimed(entry, todo)

\* C29: in the payload built by buildTodo, buildProjectItems and
\* buildStructuredProjectPayload, `title` is always present and every other
\* attribute key is present exactly when its input field is supplied and
\* non-empty: empty strings and empty tag or checklist arrays produce no key,
\* while booleans (false included) and index (0 included) are kept whenever
\* supplied; a checklist entry carries `completed` only when it was given.
C29_AttributesWhenSupplied ==
  ProjectDone =>
    /\ AttributesAsClaimed(out.payload[1], call.project)
    /\ Len(PayloadItems) = Len(InputItems)
    /\ \A i \in 1..Len(InputItems) :
         LET entry == PayloadItems[i]
             item == InputItems[i]
         IN IF item.type = "to-do" THEN TodoAsClaimed(entry, item)
            ELSE /\ AttributesAsClaimed(entry, item)
                 /\ HasItems(item) =>
                      /\ Len(entry.items) = Len(item.items)
                      /\ \A k \in 1..Len(item.items) : TodoAsClaimed(entry.items[k], item.items[k])

\* A to-do given with empty notes, completed false and index 0: its entry has
\* the attributes title, completed and index.
C29_Witness ==
  /\ ProjectDone
  /\ Len(InputItems) = 1
  /\ InputItems[1].type = "to-do"
  /\ Has(InputItems[1], "notes") /\ InputItems[1].notes = ""
  /\ Has(InputItems[1], "completed") /\ InputItems[1].completed = FALSE
  /\ Has(InputItems[1], "index") /\ InputItems[1].index = 0
  /\ DOMAIN PayloadItems[1].attributes = {"title", "completed", "index"}
  /\ PayloadItems[1].attributes.completed = FALSE
  /\ PayloadItems[1].attributes.index = 0

\* A to-do given with a checklist of two items that give `completed`.
C29_WitnessChecklist ==
  /\ ProjectDone
  /\ Len(InputItems) = 1
  /\ InputItems[1].type = "to-do"
  /\ Has(InputItems[1], "checklistItems") /\ Len(InputItems[1].checklistItems) = 2
  /\ Len(PayloadItems[1].items) = 2
  /\ PayloadItems[1].items[1].attributes.completed = FALSE

(***************************************************************************)
(* The result of evaluate, by what the script run came to (SpecTools).     *)
(***************************************************************************)
EvaluateEnded == call.tool = "evaluate" /\ opened # <<>> /\ pc \in {"returned", "failed"}

\* C30: the evaluate tool returns a resource only when the script's output is
\* non-empty, parses as JSON, and is not an object with a string `error`
\* field; in each of the other cases (script failure, empty output, unparsable
\* output, error object) the call fails with a message that begins "Failed to
\* evaluate Things item:" and no resource is returned.
C30_ResourceOnlyForItems ==
  EvaluateEnded =>
    IF opened[1].outcome.is = "item"
    THEN /\ pc = "returned"
         /\ Len(out.content) = 1
         /\ out.content[1].type = "resource"
         /\ out.content[1].resource.mimeType = "application/json"
    ELSE /\ opened[1].outcome.is \in
              {"script failure", "empty output", "unparsable output", "error object"}
         /\ pc = "failed"
         /\ ~Has(out, "content")
         /\ out.threw[1] = EvaluateFailedPrefix
         /\ Len(out.threw) >= 2

\* The script answered {"error": "e", "message": "m"}: the call has failed
\* with "Failed to evaluate Things item: Things evaluate script returned
\* error: m".
C30_Witness ==
  /\ EvaluateEnded
  /\ opened[1].outcome.is = "error object"
  /\ Len(opened[1].outcome.stdout) = 9
  /\ pc = "failed"
  /\ out = [threw |-> <<EvaluateFailedPrefix, "Things evaluate script returned error: ", "m">>]

\* The script answered {"error": 1}: the value is returned as a resource.
C30_WitnessNumberError ==
  /\ EvaluateEnded
  /\ opened[1].outcome.is = "item"
  /\ opened[1].outcome.stdout = <<"{", "\"error\"", ":", "1", "}">>
  /\ pc = "returned"
  /\ out.content[1].resource.text = <<"{", "\n", " ", " ", "\"error\"", ":", " ", "1", "\n", "}">>


============================================================================
